---- MODULE Spec2Model ----
(***************************************************************************)
(* Model of the fortigate-dashboard log pipeline.                          *)
(*                                                                         *)
(* LogAggregator (backend/collectors/syslog_collector.py, reproduced in    *)
(* the setup guide) keeps a bounded list of recent records and running     *)
(* statistics; add_log, get_stats, get_recent_logs and reset are its       *)
(* operations.                                                             *)
(*                                                                         *)
(* Python values are modelled as tagged records [t, v]: t is "none",       *)
(* "str" or "int" and v is the text as a tuple of one-character strings    *)
(* (for an int, its decimal digits).  Python dicts are insertion-ordered:  *)
(* a dict is a sequence of <<key, value>> pairs in insertion order.        *)
(***************************************************************************)
EXTENDS Integers, Sequences, FiniteSets, TLC

(***************************************************************************)
(* Bounds of the model.                                                    *)
(***************************************************************************)
MaxAdds == 3

MaxCap == 2

MaxResets == 1

(***************************************************************************)
(* Python values.                                                          *)
(***************************************************************************)
None == [t |-> "none", v |-> <<>>]

S(chars) == [t |-> "str", v |-> chars]

I(digits) == [t |-> "int", v |-> digits]

\* bool(value): None, '' and 0 are falsy
Truthy(val) ==
    \/ val.t = "str" /\ val.v # <<>>
    \/ val.t = "int" /\ val.v # <<"0">>

\* str(value)
PyStr(val) == IF val.t = "none" THEN <<"N", "o", "n", "e">> ELSE val.v

UpperToLower ==
    [A |-> "a", B |-> "b", C |-> "c", D |-> "d", E |-> "e", F |-> "f",
     G |-> "g", H |-> "h", I |-> "i", J |-> "j", K |-> "k", L |-> "l",
     M |-> "m", N |-> "n", O |-> "o", P |-> "p", Q |-> "q", R |-> "r",
     S |-> "s", T |-> "t", U |-> "u", V |-> "v", W |-> "w", X |-> "x",
     Y |-> "y", Z |-> "z"]

\* str.lower() on ASCII text
Lower(chars) ==
    [i \in 1..Len(chars) |->
        IF chars[i] \in DOMAIN UpperToLower THEN UpperToLower[chars[i]] ELSE chars[i]]

Digits == {"0", "1", "2", "3", "4", "5", "6", "7", "8", "9"}

DigitVal ==
    [c \in Digits |->
        CASE c = "0" -> 0 [] c = "1" -> 1 [] c = "2" -> 2 [] c = "3" -> 3
          [] c = "4" -> 4 [] c = "5" -> 5 [] c = "6" -> 6 [] c = "7" -> 7
          [] c = "8" -> 8 [] c = "9" -> 9]

\* str.split(sep): the parts of chars between occurrences of sep
RECURSIVE SplitFrom(_, _, _, _)
SplitFrom(chars, sep, i, cur) ==
    IF i > Len(chars) THEN <<cur>>
    ELSE IF chars[i] = sep THEN <<cur>> \o SplitFrom(chars, sep, i + 1, <<>>)
    ELSE SplitFrom(chars, sep, i + 1, Append(cur, chars[i]))

Split(chars, sep) == SplitFrom(chars, sep, 1, <<>>)

\* int(text) succeeds: an optional sign followed by one or more digits
\* (the alphabet of the model has no whitespace and no underscores)
Unsigned(text) ==
    IF text # <<>> /\ text[1] \in {"+", "-"} THEN Tail(text) ELSE text

IntParses(text) ==
    /\ Unsigned(text) # <<>>
    /\ \A i \in 1..Len(Unsigned(text)) : Unsigned(text)[i] \in Digits

RECURSIVE DigitsValue(_)
DigitsValue(ds) ==
    IF ds = <<>> THEN 0
    ELSE 10 * DigitsValue(SubSeq(ds, 1, Len(ds) - 1)) + DigitVal[ds[Len(ds)]]

\* int(text), for a text that parses
IntValue(text) ==
    IF text[1] = "-" THEN 0 - DigitsValue(Unsigned(text))
    ELSE DigitsValue(Unsigned(text))

(***************************************************************************)
(* The texts of the model, one character per element.                      *)
(***************************************************************************)
Str ==
    [unknown |-> <<"u", "n", "k", "n", "o", "w", "n">>,
     Other |-> <<"O", "t", "h", "e", "r">>,
     empty |-> <<>>,
     deny |-> <<"d", "e", "n", "y">>,
     denied |-> <<"d", "e", "n", "i", "e", "d">>,
     blocked |-> <<"b", "l", "o", "c", "k", "e", "d">>,
     drop |-> <<"d", "r", "o", "p">>,
     block |-> <<"b", "l", "o", "c", "k">>,
     accept |-> <<"a", "c", "c", "e", "p", "t">>,
     accepted |-> <<"a", "c", "c", "e", "p", "t", "e", "d">>,
     allow |-> <<"a", "l", "l", "o", "w">>,
     allowed |-> <<"a", "l", "l", "o", "w", "e", "d">>,
     pass |-> <<"p", "a", "s", "s">>,
     passthrough |-> <<"p", "a", "s", "s", "t", "h", "r", "o", "u", "g", "h">>,
     DENY |-> <<"D", "E", "N", "Y">>,
     utm |-> <<"u", "t", "m">>,
     traffic |-> <<"t", "r", "a", "f", "f", "i", "c">>,
     event |-> <<"e", "v", "e", "n", "t">>,
     forward |-> <<"f", "o", "r", "w", "a", "r", "d">>,
     local |-> <<"l", "o", "c", "a", "l">>,
     virus |-> <<"v", "i", "r", "u", "s">>,
     webfilter |-> <<"w", "e", "b", "f", "i", "l", "t", "e", "r">>,
     ips |-> <<"i", "p", "s">>,
     app_ctrl |-> <<"a", "p", "p", "-", "c", "t", "r", "l">>,
     system |-> <<"s", "y", "s", "t", "e", "m">>,
     vpn |-> <<"v", "p", "n">>,
     user |-> <<"u", "s", "e", "r">>,
     traffic_forward |-> <<"t", "r", "a", "f", "f", "i", "c", "_", "f", "o", "r", "w", "a", "r", "d">>,
     traffic_local |-> <<"t", "r", "a", "f", "f", "i", "c", "_", "l", "o", "c", "a", "l">>,
     security_av |-> <<"s", "e", "c", "u", "r", "i", "t", "y", "_", "a", "v">>,
     security_web |-> <<"s", "e", "c", "u", "r", "i", "t", "y", "_", "w", "e", "b">>,
     security_ips |-> <<"s", "e", "c", "u", "r", "i", "t", "y", "_", "i", "p", "s">>,
     security_app |-> <<"s", "e", "c", "u", "r", "i", "t", "y", "_", "a", "p", "p">>,
     event_system |-> <<"e", "v", "e", "n", "t", "_", "s", "y", "s", "t", "e", "m">>,
     event_vpn |-> <<"e", "v", "e", "n", "t", "_", "v", "p", "n">>,
     event_user |-> <<"e", "v", "e", "n", "t", "_", "u", "s", "e", "r">>,
     src1 |-> <<"1", "0", ".", "0", ".", "0", ".", "5">>,
     src2 |-> <<"1", "0", ".", "0", ".", "0", ".", "6">>,
     dst1 |-> <<"1", ".", "2", ".", "3", ".", "4">>,
     ip9 |-> <<"9", ".", "9", ".", "9", ".", "9">>,
     example_com |-> <<"e", "x", "a", "m", "p", "l", "e", ".", "c", "o", "m">>,
     Gambling |-> <<"G", "a", "m", "b", "l", "i", "n", "g">>,
     out_of_range |-> <<"1", ".", "2", ".", "3", ".", "2", "5", "6">>,
     n12345 |-> <<"1", "2", "3", "4", "5">>]

(***************************************************************************)
(* Python dicts, as sequences of <<key, value>> pairs in insertion order.  *)
(***************************************************************************)
DictHas(d, k) == \E i \in 1..Len(d) : d[i][1] = k

\* d.get(k, default)
DictGet(d, k, default) ==
    IF DictHas(d, k) THEN d[CHOOSE i \in 1..Len(d) : d[i][1] = k][2] ELSE default

\* d[k] = val: an existing key keeps its position, a new key goes last
DictSet(d, k, val) ==
    IF DictHas(d, k)
    THEN [i \in 1..Len(d) |-> IF d[i][1] = k THEN <<k, val>> ELSE d[i]]
    ELSE Append(d, <<k, val>>)

\* d[k] = d.get(k, 0) + 1
DictInc(d, k) == DictSet(d, k, DictGet(d, k, 0) + 1)

RECURSIVE DictSum(_)
DictSum(d) == IF d = <<>> THEN 0 ELSE d[1][2] + DictSum(Tail(d))

(***************************************************************************)
(* FortiGateSyslogCollector._categorize_log                                *)
(***************************************************************************)
categories ==
    << <<S(Str.traffic), S(Str.forward), Str.traffic_forward>>,
       <<S(Str.traffic), S(Str.local), Str.traffic_local>>,
       <<S(Str.utm), S(Str.virus), Str.security_av>>,
       <<S(Str.utm), S(Str.webfilter), Str.security_web>>,
       <<S(Str.utm), S(Str.ips), Str.security_ips>>,
       <<S(Str.utm), S(Str.app_ctrl), Str.security_app>>,
       <<S(Str.event), S(Str.system), Str.event_system>>,
       <<S(Str.event), S(Str.vpn), Str.event_vpn>>,
       <<S(Str.event), S(Str.user), Str.event_user>> >>

\* log.get(key, default) for a field that is None when the key is absent
GetOr(field, default) == IF field = None THEN default ELSE field

categorize_log(type, subtype) ==
    LET log_type == GetOr(type, S(Str.empty))
        sub == GetOr(subtype, S(Str.empty))
        hit == {i \in 1..Len(categories) :
                   categories[i][1] = log_type /\ categories[i][2] = sub}
    IN  IF hit # {}
        THEN S(categories[CHOOSE i \in hit : TRUE][3])
        ELSE S(PyStr(log_type) \o <<"_">> \o PyStr(sub))

(***************************************************************************)
(* A parsed record: the fields add_log reads.  A field is None when the    *)
(* key is absent; log_category is set by parse_fortigate_log.              *)
(***************************************************************************)
Log(action, srcip, dstip, hostname, type, subtype, catdesc) ==
    [action |-> action, srcip |-> srcip, dstip |-> dstip, hostname |-> hostname,
     type |-> type, subtype |-> subtype, catdesc |-> catdesc,
     log_category |-> categorize_log(type, subtype)]

(***************************************************************************)
(* LogAggregator._is_ip_address                                            *)
(***************************************************************************)
\* value.split('.') is outside the try block: a truthy value that is not a
\* str has no split attribute and the AttributeError leaves the method
is_ip_address_raises(value) == Truthy(value) /\ value.t # "str"

\* the result for a value on which the method returns
is_ip_address(value) ==
    IF ~Truthy(value) THEN FALSE
    ELSE LET parts == Split(value.v, ".")
         IN  IF Len(parts) # 4 THEN FALSE
             ELSE IF \E i \in 1..4 : ~IntParses(parts[i]) THEN FALSE
             ELSE \A i \in 1..4 : 0 <= IntValue(parts[i]) /\ IntValue(parts[i]) <= 255

(***************************************************************************)
(* LogAggregator state.                                                    *)
(*                                                                         *)
(* get_stats returns the by_action and by_type dicts themselves, not       *)
(* copies, so these two dicts are objects on a heap and stats holds their  *)
(* addresses.  The other dicts of stats never leave the aggregator and     *)
(* are held by value.  A dict lives on the heap as long as stats or a      *)
(* returned result refers to it (reference counting).                      *)
(***************************************************************************)
VARIABLES
    max_logs,    \* self.max_logs
    logs,        \* self._logs
    stats,       \* self.stats
    heap,        \* the dict objects created for by_action and by_type
    ret_stats,   \* the dict most recently returned by get_stats (None before)
    ret_logs,    \* the list most recently returned by get_recent_logs
    added,       \* history: the records passed to add_log since the last reset
    nAdds,       \* history: number of add_log steps taken
    nResets,     \* history: number of reset calls
    lastOp       \* the operation that ran last

aggVars == <<max_logs, logs, stats, heap, ret_stats, ret_logs, added, nAdds, nResets, lastOp>>

\* the stats dict built by __init__ and by reset; a1 and a2 are the
\* addresses of the fresh by_action and by_type dicts
NewStats(a1, a2) ==
    [total_logs |-> 0,
     by_action |-> a1,
     by_srcip |-> <<>>,
     by_dstip |-> <<>>,
     by_type |-> a2,
     blocked_count |-> 0,
     allowed_count |-> 0,
     blocked_sites |-> <<>>,
     by_destination |-> <<>>,
     blocked_categories |-> <<>>,
     blocked_sites_detail |-> <<>>,
     blocked_categories_detail |-> <<>>]

(***************************************************************************)
(* LogAggregator.add_log                                                   *)
(***************************************************************************)
\* seq[-n:]
SliceLast(seq, n) ==
    LET start == IF n > 0
                 THEN (IF Len(seq) - n > 0 THEN Len(seq) - n ELSE 0)
                 ELSE (IF 0 - n < Len(seq) THEN 0 - n ELSE Len(seq))
    IN  SubSeq(seq, start + 1, Len(seq))

\* ring_append keeping the head of the list: self._logs[:self.max_logs]
ring_append_keep_first(ls, log, cap) ==
    LET appended == Append(ls, log)
    IN  IF Len(appended) > cap THEN SubSeq(appended, 1, cap) ELSE appended

\* self._logs.append(log), then the truncation to max_logs
ring_append(ls, log, cap) ==
    LET appended == Append(ls, log)
    IN  IF Len(appended) > cap THEN SliceLast(appended, cap) ELSE appended

BlockActions == {Str.deny, Str.denied, Str.blocked, Str.drop, Str.block}

AllowActions == {Str.accept, Str.accepted, Str.allow, Str.allowed, Str.pass}

log_action(log) == GetOr(log.action, S(Str.unknown))

action_lower(log) ==
    IF Truthy(log_action(log)) THEN Lower(PyStr(log_action(log))) ELSE Str.empty

counts_blocked(log) == action_lower(log) \in BlockActions

counts_allowed(log) == ~counts_blocked(log) /\ action_lower(log) \in AllowActions

\* total_logs, by_action, blocked/allowed counts, by_srcip, by_dstip
\* (the statements before the hostname test)
count_update(st, hp, log) ==
    LET st1 == [st EXCEPT
                  !.total_logs = @ + 1,
                  !.blocked_count = IF counts_blocked(log) THEN @ + 1 ELSE @,
                  !.allowed_count = IF counts_allowed(log) THEN @ + 1 ELSE @,
                  !.by_srcip = IF Truthy(log.srcip) THEN DictInc(@, log.srcip) ELSE @,
                  !.by_dstip = IF Truthy(log.dstip) THEN DictInc(@, log.dstip) ELSE @]
    IN  [stats |-> st1,
         heap |-> [hp EXCEPT ![st.by_action] = DictInc(@, log_action(log))]]

\* hostname and hostname != dstip and not self._is_ip_address(hostname):
\* the call is reached only when the first two conjuncts hold
hostname_test_raises(log) ==
    /\ Truthy(log.hostname)
    /\ log.hostname # log.dstip
    /\ is_ip_address_raises(log.hostname)

hostname_test(log) ==
    /\ Truthy(log.hostname)
    /\ log.hostname # log.dstip
    /\ ~is_ip_address(log.hostname)

destination(log) == IF hostname_test(log) THEN log.hostname ELSE log.dstip

destination_update(st, log) ==
    IF Truthy(destination(log))
    THEN [st EXCEPT !.by_destination = DictInc(@, destination(log))]
    ELSE st

\* is_utm_block without the test of the log type
is_utm_block_any_type(log) == action_lower(log) \in BlockActions

is_utm_block(log) ==
    /\ action_lower(log) \in BlockActions
    /\ GetOr(log.type, S(Str.empty)) = S(Str.utm)

blocked_site(log) ==
    LET first == IF Truthy(log.hostname) THEN log.hostname ELSE log.dstip
    IN  IF Truthy(first) /\ hostname_test(log) THEN log.hostname
        ELSE IF ~Truthy(first) THEN log.dstip
        ELSE first

\* a site_update that counts the detail and not the site
site_update_detail_only(st, log) ==
    LET site == blocked_site(log)
        detail == IF DictHas(st.blocked_sites_detail, site)
                  THEN st.blocked_sites_detail
                  ELSE DictSet(st.blocked_sites_detail, site, <<>>)
        sources == DictGet(detail, site, <<>>)
    IN  IF Truthy(site)
        THEN [st EXCEPT
                !.blocked_sites_detail =
                    IF Truthy(log.srcip)
                    THEN DictSet(detail, site, DictInc(sources, log.srcip))
                    ELSE detail]
        ELSE st

site_update(st, log) ==
    LET site == blocked_site(log)
        detail == IF DictHas(st.blocked_sites_detail, site)
                  THEN st.blocked_sites_detail
                  ELSE DictSet(st.blocked_sites_detail, site, <<>>)
        sources == DictGet(detail, site, <<>>)
    IN  IF Truthy(site)
        THEN [st EXCEPT
                !.blocked_sites = DictInc(@, site),
                !.blocked_sites_detail =
                    IF Truthy(log.srcip)
                    THEN DictSet(detail, site, DictInc(sources, log.srcip))
                    ELSE detail]
        ELSE st

has_category(log) ==
    \/ GetOr(log.subtype, S(Str.empty)) = S(Str.webfilter)
    \/ Truthy(log.catdesc)

log_category_name(log) == IF Truthy(log.catdesc) THEN log.catdesc ELSE S(Str.Other)

\* category_update recording the category as the destination of the detail
category_update_by_category(st, log) ==
    LET category == log_category_name(log)
        detail == IF DictHas(st.blocked_categories_detail, category)
                  THEN st.blocked_categories_detail
                  ELSE DictSet(st.blocked_categories_detail, category, <<>>)
        bySrc == DictGet(detail, category, <<>>)
        bySrc1 == IF DictHas(bySrc, log.srcip) THEN bySrc
                  ELSE DictSet(bySrc, log.srcip, <<>>)
        dests == DictGet(bySrc1, log.srcip, <<>>)
        bySrc2 == DictSet(bySrc1, log.srcip, DictInc(dests, category))
    IN  IF has_category(log)
        THEN [st EXCEPT
                !.blocked_categories = DictInc(@, category),
                !.blocked_categories_detail =
                    IF Truthy(log.srcip) THEN DictSet(detail, category, bySrc2)
                    ELSE detail]
        ELSE st

category_update(st, log) ==
    LET category == log_category_name(log)
        site == blocked_site(log)
        detail == IF DictHas(st.blocked_categories_detail, category)
                  THEN st.blocked_categories_detail
                  ELSE DictSet(st.blocked_categories_detail, category, <<>>)
        bySrc == DictGet(detail, category, <<>>)
        bySrc1 == IF DictHas(bySrc, log.srcip) THEN bySrc
                  ELSE DictSet(bySrc, log.srcip, <<>>)
        dests == DictGet(bySrc1, log.srcip, <<>>)
        bySrc2 == IF Truthy(site)
                  THEN DictSet(bySrc1, log.srcip, DictInc(dests, site))
                  ELSE bySrc1
    IN  IF has_category(log)
        THEN [st EXCEPT
                !.blocked_categories = DictInc(@, category),
                !.blocked_categories_detail =
                    IF Truthy(log.srcip) THEN DictSet(detail, category, bySrc2)
                    ELSE detail]
        ELSE st

blocked_update(st, log) ==
    IF is_utm_block(log) THEN category_update(site_update(st, log), log) ELSE st

type_update(hp, st, log) ==
    [hp EXCEPT ![st.by_type] = DictInc(@, GetOr(log.log_category, S(Str.unknown)))]

\* The aggregator after add_log(log): the body holds the lock and has no
\* await, so it runs as one step.  When _is_ip_address raises, the
\* statements before the hostname test have taken effect and the rest have
\* not; the lock is released and _notify logs the exception.
add_log_on(agg, cap, log) ==
    LET ring == ring_append(agg.logs, log, cap)
        counted == count_update(agg.stats, agg.heap, log)
    IN  IF hostname_test_raises(log)
        THEN [logs |-> ring, stats |-> counted.stats, heap |-> counted.heap]
        ELSE LET st2 == blocked_update(destination_update(counted.stats, log), log)
             IN  [logs |-> ring, stats |-> st2,
                  heap |-> type_update(counted.heap, st2, log)]

\* add_log on the aggregator of the current state
add_log(log) ==
    add_log_on([logs |-> logs, stats |-> stats, heap |-> heap], max_logs, log)

(***************************************************************************)
(* LogAggregator.get_recent_logs and LogAggregator.get_stats               *)
(***************************************************************************)
TopN == 10

\* a descending sort that puts a later item before the earlier items of
\* equal key
RECURSIVE sorted_desc_ties_reversed(_, _)
sorted_desc_ties_reversed(items, col) ==
    IF items = <<>> THEN <<>>
    ELSE LET init == sorted_desc_ties_reversed(SubSeq(items, 1, Len(items) - 1), col)
             x == items[Len(items)]
             k == Cardinality({i \in 1..Len(init) : init[i][col] > x[col]})
         IN  SubSeq(init, 1, k) \o <<x>> \o SubSeq(init, k + 1, Len(init))

\* sorted(items, key=lambda x: x[col], reverse=True): descending and
\* stable, items with equal keys keep their original order
RECURSIVE sorted_desc(_, _)
sorted_desc(items, col) ==
    IF items = <<>> THEN <<>>
    ELSE LET init == sorted_desc(SubSeq(items, 1, Len(items) - 1), col)
             x == items[Len(items)]
             k == Cardinality({i \in 1..Len(init) : init[i][col] >= x[col]})
         IN  SubSeq(init, 1, k) \o <<x>> \o SubSeq(init, k + 1, Len(init))

\* seq[:n]
SliceFirst(seq, n) == SubSeq(seq, 1, IF Len(seq) < n THEN Len(seq) ELSE n)

top(items, col) == SliceFirst(sorted_desc(items, col), TopN)

\* the (srcip, dest, dest_count) tuples of one category, in dict order
RECURSIVE flatten_dests(_, _)
flatten_dests(srcip, dests) ==
    IF dests = <<>> THEN <<>>
    ELSE <<<<srcip, dests[1][1], dests[1][2]>>>> \o flatten_dests(srcip, Tail(dests))

RECURSIVE flatten(_)
flatten(cat_data) ==
    IF cat_data = <<>> THEN <<>>
    ELSE flatten_dests(cat_data[1][1], cat_data[1][2]) \o flatten(Tail(cat_data))

\* top_blocked_detail listing the first 10 sources of a site unsorted
top_blocked_detail_unsorted(st) ==
    LET tb == top(st.blocked_sites, 2)
    IN  [i \in 1..Len(tb) |->
            [site |-> tb[i][1], count |-> tb[i][2],
             sources |-> SliceFirst(DictGet(st.blocked_sites_detail, tb[i][1], <<>>),
                                    TopN)]]

top_blocked_detail(st) ==
    LET tb == top(st.blocked_sites, 2)
    IN  [i \in 1..Len(tb) |->
            [site |-> tb[i][1], count |-> tb[i][2],
             sources |-> top(DictGet(st.blocked_sites_detail, tb[i][1], <<>>), 2)]]

top_blocked_categories_detail(st) ==
    LET tc == top(st.blocked_categories, 2)
    IN  [i \in 1..Len(tc) |->
            [category |-> tc[i][1], count |-> tc[i][2],
             sources |-> top(flatten(DictGet(st.blocked_categories_detail, tc[i][1], <<>>)), 3)]]

\* the dict get_stats returns; by_action and by_type are the addresses of
\* the aggregator's own dicts
get_stats(st) ==
    [total_logs |-> st.total_logs,
     blocked_count |-> st.blocked_count,
     allowed_count |-> st.allowed_count,
     by_action |-> st.by_action,
     by_type |-> st.by_type,
     top_sources |-> top(st.by_srcip, 2),
     top_destinations |-> top(st.by_destination, 2),
     top_blocked |-> top(st.blocked_sites, 2),
     top_blocked_categories |-> top(st.blocked_categories, 2),
     top_blocked_detail |-> top_blocked_detail(st),
     top_blocked_categories_detail |-> top_blocked_categories_detail(st)]

get_recent_logs(ls, limit) == SliceLast(ls, limit)

\* what a holder of a dict returned by get_stats reads from it now
Observed(r) == [r EXCEPT !.by_action = heap[@], !.by_type = heap[@]]

(***************************************************************************)
(* The records offered to add_log.                                         *)
(***************************************************************************)
Src == S(Str.src1)

Dst == S(Str.dst1)

Host == S(Str.example_com)

Traffic == S(Str.traffic)

Utm == S(Str.utm)

\* one record per action label, otherwise a plain forwarded connection
ActionRecords ==
    {Log(a, Src, Dst, None, Traffic, S(Str.forward), None) :
        a \in {None, S(Str.accept), S(Str.allowed)}}

\* the hostname against the destination address
HostRecords ==
    {Log(S(Str.accept), Src, Dst, h, Traffic, S(Str.forward), None) :
        h \in {Host, Dst, S(Str.out_of_range)}}
    \cup
    {Log(S(Str.accept), Src, None, S(Str.ip9), Traffic, S(Str.forward), None)}

\* blocked records: utm or not, web filter or not, with and without catdesc
BlockRecords ==
    {Log(S(Str.blocked), Src, None, Host, Utm, S(Str.webfilter), S(Str.Gambling)),
     Log(S(Str.DENY), Src, Dst, S(Str.ip9), Utm, S(Str.ips), S(Str.Gambling)),
     Log(S(Str.drop), Src, Dst, None, Utm, S(Str.ips), None),
     Log(S(Str.deny), None, None, Host, Utm, S(Str.webfilter), None),
     Log(S(Str.deny), Src, Dst, I(Str.n12345), Utm, S(Str.webfilter), None),
     Log(S(Str.deny), S(Str.src2), Dst, Host, Traffic, S(Str.forward), S(Str.Gambling)),
     Log(S(Str.passthrough), Src, Dst, Host, Utm, S(Str.webfilter), S(Str.Gambling))}

Records == ActionRecords \cup HostRecords \cup BlockRecords

\* the records of the runs in which results of get_stats are held
SnapRecords ==
    {Log(S(Str.accept), Src, Dst, None, Traffic, S(Str.forward), None),
     Log(S(Str.blocked), Src, None, Host, Utm, S(Str.webfilter), S(Str.Gambling)),
     Log(S(Str.deny), S(Str.src2), Dst, Host, Traffic, S(Str.forward), S(Str.Gambling))}

(***************************************************************************)
(* FortiGateSyslogCollector.parse_fortigate_log and                        *)
(* _SyslogProtocol.datagram_received.                                      *)
(*                                                                         *)
(* A datagram is its decoded text, one character per element;              *)
(* data.decode('utf-8', errors='replace') never raises.  The parsed        *)
(* record is a Python dict: <<key, value>> pairs in insertion order.       *)
(***************************************************************************)
\* the keys the parser and datagram_received read and write
Field ==
    [raw |-> S(<<"r", "a", "w">>),
     received_at |-> S(<<"r", "e", "c", "e", "i", "v", "e", "d", "_", "a", "t">>),
     date |-> S(<<"d", "a", "t", "e">>),
     time |-> S(<<"t", "i", "m", "e">>),
     timestamp |-> S(<<"t", "i", "m", "e", "s", "t", "a", "m", "p">>),
     log_category |-> S(<<"l", "o", "g", "_", "c", "a", "t", "e", "g", "o", "r", "y">>),
     type |-> S(<<"t", "y", "p", "e">>),
     subtype |-> S(<<"s", "u", "b", "t", "y", "p", "e">>),
     source_ip |-> S(<<"s", "o", "u", "r", "c", "e", "_", "i", "p">>)]

\* the one character U+00B2 (superscript two): str.isdigit() accepts it,
\* int() does not
Sup2 == "U+00B2"

\* \w of a str pattern: letters, digits, the underscore and the other
\* characters Unicode calls alphanumeric
WordChars ==
    {"a", "b", "c", "d", "e", "f", "g", "h", "i", "j", "k", "l", "m",
     "n", "o", "p", "q", "r", "s", "t", "u", "v", "w", "x", "y", "z"}
    \cup (DOMAIN UpperToLower) \cup Digits \cup {"_", Sup2}

\* \s, and the characters str.strip() removes
SpaceChars == {" "}

Least(set) == CHOOSE i \in set : \A j \in set : i <= j

Greatest(set) == CHOOSE i \in set : \A j \in set : j <= i

\* the last index of the longest run that starts at index p of characters
\* inside chars (in = TRUE) or outside chars (in = FALSE); p - 1 when the
\* character at p does not qualify
RunEnd(text, p, chars, in) ==
    LET stops == {i \in p..Len(text) : (text[i] \in chars) # in}
    IN  IF stops = {} THEN Len(text) ELSE Least(stops) - 1

NoMatch == [ok |-> FALSE, key |-> <<>>, quoted |-> <<>>, unquoted |-> <<>>, last |-> 0]

\* the match of (\w+)=(?:"([^"]*)"|([\S]+)) that starts at index p.  \w+
\* is greedy and '=' is not a word character, so the key is the whole run
\* of word characters at p; the quoted alternative is tried first and
\* needs a closing quote; a group that takes no part is ''.
match_at(raw, p) ==
    LET keyEnd == RunEnd(raw, p, WordChars, TRUE)
        v == keyEnd + 2
        closing == {i \in (v + 1)..Len(raw) : raw[i] = "\""}
        valEnd == RunEnd(raw, v, SpaceChars, FALSE)
    IN  IF keyEnd < p \/ keyEnd + 1 > Len(raw) THEN NoMatch
        ELSE IF raw[keyEnd + 1] # "=" THEN NoMatch
        ELSE IF v <= Len(raw) /\ raw[v] = "\"" /\ closing # {}
        THEN [ok |-> TRUE, key |-> SubSeq(raw, p, keyEnd),
              quoted |-> SubSeq(raw, v + 1, Least(closing) - 1),
              unquoted |-> <<>>, last |-> Least(closing)]
        ELSE IF valEnd < v THEN NoMatch
        ELSE [ok |-> TRUE, key |-> SubSeq(raw, p, keyEnd), quoted |-> <<>>,
              unquoted |-> SubSeq(raw, v, valEnd), last |-> valEnd]

\* re.findall(pattern, raw[p-1:]): the non-overlapping matches from left
\* to right
RECURSIVE findall(_, _)
findall(raw, p) ==
    IF p > Len(raw) THEN <<>>
    ELSE LET m == match_at(raw, p)
         IN  IF m.ok THEN <<m>> \o findall(raw, m.last + 1)
             ELSE findall(raw, p + 1)

\* value = quoted_val if quoted_val else unquoted_val
match_value(m) == IF m.quoted # <<>> THEN m.quoted ELSE m.unquoted

\* str.isdigit(): not empty, and every character is a digit character
isdigit(text) == text # <<>> /\ \A i \in 1..Len(text) : text[i] \in Digits \cup {Sup2}

\* int(text) raises ValueError, for a text isdigit accepts
int_raises(text) == \E i \in 1..Len(text) : text[i] = Sup2

\* the decimal digits of int(text): leading zeros are gone
RECURSIVE int_digits(_)
int_digits(text) ==
    IF Len(text) > 1 /\ text[1] = "0" THEN int_digits(Tail(text)) ELSE text

\* if value.isdigit(): value = int(value)
coerce(text) == IF isdigit(text) THEN I(int_digits(text)) ELSE S(text)

\* the loop over the matches: parsed[key] = value
RECURSIVE store_matches(_, _)
store_matches(parsed, matches) ==
    IF matches = <<>> THEN parsed
    ELSE store_matches(DictSet(parsed, S(matches[1].key),
                               coerce(match_value(matches[1]))),
                       Tail(matches))

\* the ValueError of int() leaves parse_fortigate_log
parse_raises(raw) ==
    LET matches == findall(raw, 1)
    IN  \E i \in 1..Len(matches) :
            isdigit(match_value(matches[i])) /\ int_raises(match_value(matches[i]))

\* the dict parse_fortigate_log returns when it returns; now is
\* datetime.utcnow().isoformat()
parse_fortigate_log(raw, now) ==
    LET initial == << <<Field.raw, S(raw)>>, <<Field.received_at, now>> >>
        parsed == store_matches(initial, findall(raw, 1))
        stamped == IF DictHas(parsed, Field.date) /\ DictHas(parsed, Field.time)
                   THEN DictSet(parsed, Field.timestamp,
                                S(PyStr(DictGet(parsed, Field.date, None))
                                  \o <<"T">> \o
                                  PyStr(DictGet(parsed, Field.time, None))))
                   ELSE parsed
    IN  DictSet(stamped, Field.log_category,
                categorize_log(DictGet(stamped, Field.type, None),
                               DictGet(stamped, Field.subtype, None)))

\* str.strip()
Strip(text) ==
    LET keep == {i \in 1..Len(text) : text[i] \notin SpaceChars}
    IN  IF keep = {} THEN <<>> ELSE SubSeq(text, Least(keep), Greatest(keep))

\* str.find(c): the 0-based index of the first c, -1 when there is none
Find(text, c) ==
    LET hits == {i \in 1..Len(text) : text[i] = c}
    IN  IF hits = {} THEN 0 - 1 ELSE Least(hits) - 1

\* a cut that keeps the '>' of the prefix: raw[idx:]
unprefixed_keep_bracket(data) ==
    LET raw == Strip(data)
        idx == Find(raw, ">")
    IN  IF raw # <<>> /\ raw[1] = "<" /\ idx > 0
        THEN Strip(SubSeq(raw, idx + 1, Len(raw)))
        ELSE raw

\* the text datagram_received passes to parse_fortigate_log: stripped, and
\* without the syslog priority prefix, raw[idx+1:].strip()
unprefixed(data) ==
    LET raw == Strip(data)
        idx == Find(raw, ">")
    IN  IF raw # <<>> /\ raw[1] = "<" /\ idx > 0
        THEN Strip(SubSeq(raw, idx + 2, Len(raw)))
        ELSE raw

\* what datagram_received does with a datagram from the sender 192.0.2.1:
\* the log_entry it creates a _notify task for, or the failure its except
\* clause logs
datagram_result(data, now) ==
    LET raw == unprefixed(data)
        addr == S(<<"1", "9", "2", ".", "0", ".", "2", ".", "1">>)
    IN  IF parse_raises(raw) THEN [ok |-> FALSE, log_entry |-> <<>>]
        ELSE [ok |-> TRUE,
              log_entry |-> DictSet(parse_fortigate_log(raw, now),
                                    Field.source_ip, addr)]

(***************************************************************************)
(* The datagrams of the model: up to MaxTokens pieces of text, joined.     *)
(***************************************************************************)
MaxTokens == 3

Tokens ==
    {<<"<", "1", "3", "4", ">">>,                                 \* <134>
     <<" ">>,                                                     \* one space
     <<"<">>,                                                     \* a lone <
     <<"d", "a", "t", "e", "=", "2", "0", "2", "4", "-", "0", "1", "-", "0", "1">>,
     <<"t", "i", "m", "e", "=", "1", "2", ":", "0", "0", ":", "0", "0">>,
     <<"t", "i", "m", "e", "s", "t", "a", "m", "p", "=", "x">>,   \* timestamp=x
     <<"r", "e", "c", "e", "i", "v", "e", "d", "_", "a", "t", "=", "x">>,
     <<"i", "d", "=", "0", "0", "7">>,                            \* id=007
     <<"n", "=", "-", "5">>,                                      \* n=-5
     <<"m", "s", "g", "=", "\"", "a", " ", "b", "\"">>,           \* msg="a b"
     <<"x", "=", Sup2>>,                                          \* x= U+00B2
     <<"j", "u", "n", "k">>}                                      \* junk

RECURSIVE Join(_)
Join(pieces) == IF pieces = <<>> THEN <<>> ELSE pieces[1] \o Join(Tail(pieces))

VARIABLES
    udp,             \* the datagrams sent to the collector and not yet received
    received,        \* history: the text of each datagram received
    utcnow,          \* history: the time read for each datagram received
    tasks,           \* the log_entry of each _notify task created
    parse_failures   \* number of "Failed to parse syslog" errors logged

parserVars == <<udp, received, utcnow, tasks, parse_failures>>

ParserInit ==
    /\ udp = <<>>
    /\ received = <<>>
    /\ utcnow = <<>>
    /\ tasks = <<>>
    /\ parse_failures = 0

(***************************************************************************)
(* The useWebSocket hook of the dashboard: the state one viewer keeps,     *)
(* and what its onmessage handler does with each message.  A list in a     *)
(* message is a JavaScript array, which is truthy even when empty, so      *)
(* every `x || fallback` and `if (x)` on a list takes x.                   *)
(***************************************************************************)
VARIABLES
    wsOpen,                      \* the hook's socket is open
    inbox,                       \* the messages sent on the socket and not yet handled
    isPausedRef,                 \* isPausedRef.current
    hookLogs,                    \* the logs state, newest first after init
    hookStats,                   \* the stats state
    topBlocked,
    topBlockedCategories,
    topBlockedDetail,
    topBlockedCategoriesDetail,
    trafficOverTime,             \* one entry per minute: allowed, blocked, total
    alerted,                     \* the user has been shown 'Reset failed. Please try again.'
    missed                       \* history: the records whose log message was handled while paused

hookData == <<hookLogs, hookStats, topBlocked, topBlockedCategories,
              topBlockedDetail, topBlockedCategoriesDetail, trafficOverTime>>

hookVars == <<wsOpen, inbox, isPausedRef, hookData, alerted, missed>>

\* the labels the handlers test log.action against
isBlocked(log) == log.action \in {S(Str.deny), S(Str.block), S(Str.drop), S(Str.blocked)}

isAllowed(log) == log.action \in {S(Str.accept), S(Str.allow), S(Str.pass), S(Str.passthrough)}

\* the hook before any message: the useState and useRef initial values
HookInit ==
    /\ wsOpen = FALSE
    /\ inbox = <<>>
    /\ isPausedRef = FALSE
    /\ hookLogs = <<>>
    /\ hookStats = [total_logs |-> 0, allowed_count |-> 0, blocked_count |-> 0,
                    by_action |-> <<>>, by_type |-> <<>>,
                    top_sources |-> <<>>, top_destinations |-> <<>>]
    /\ topBlocked = <<>>
    /\ topBlockedCategories = <<>>
    /\ topBlockedDetail = <<>>
    /\ topBlockedCategoriesDetail = <<>>
    /\ trafficOverTime = <<>>
    /\ alerted = FALSE
    /\ missed = {}

\* msg.type === 'init'.  The records carry no timestamp field, so every
\* one of them is put in the minute the handler runs in, and the chart
\* gets one entry; an entry built here has no total, which the log
\* handler reads as 0.
OnInit(data) ==
    /\ hookStats' = data.stats
    /\ hookLogs' = data.logs
    /\ topBlocked' = data.stats.top_blocked
    /\ topBlockedCategories' = data.stats.top_blocked_categories
    /\ topBlockedDetail' = data.stats.top_blocked_detail
    /\ topBlockedCategoriesDetail' = data.stats.top_blocked_categories_detail
    /\ trafficOverTime' =
          IF data.logs = <<>>
          THEN <<>>
          ELSE SliceLast(<<[allowed |-> Len(SelectSeq(data.logs, isAllowed)),
                            blocked |-> Len(SelectSeq(data.logs, isBlocked)),
                            total |-> 0]>>, 20)

\* the stats with the record counted, but for total_logs
counted_no_total(prev, log) ==
    [prev EXCEPT !.allowed_count = @ + (IF isAllowed(log) THEN 1 ELSE 0),
                 !.blocked_count = @ + (IF isBlocked(log) THEN 1 ELSE 0)]

\* setStats of the log handler: the stats with the record counted
counted(prev, log) ==
    [prev EXCEPT !.total_logs = @ + 1,
                 !.allowed_count = @ + (IF isAllowed(log) THEN 1 ELSE 0),
                 !.blocked_count = @ + (IF isBlocked(log) THEN 1 ELSE 0)]

\* msg.type === 'log': nothing at all while paused; sameMinute tells
\* whether the clock still shows the minute of the last chart entry; limit
\* is the length the list of logs is cut to
OnLogSlice(log, limit) ==
    IF isPausedRef
    THEN UNCHANGED hookData
    ELSE /\ hookLogs' = SubSeq(<<log>> \o hookLogs, 1,
                               IF Len(hookLogs) + 1 < limit THEN Len(hookLogs) + 1 ELSE limit)
         /\ hookStats' = counted(hookStats, log)
         /\ \E sameMinute \in BOOLEAN :
               LET n == Len(trafficOverTime)
                   a == IF isAllowed(log) THEN 1 ELSE 0
                   b == IF isBlocked(log) THEN 1 ELSE 0
               IN  trafficOverTime' =
                      IF n > 0 /\ sameMinute
                      THEN [trafficOverTime EXCEPT
                               ![n] = [allowed |-> @.allowed + a,
                                       blocked |-> @.blocked + b,
                                       total |-> @.total + 1]]
                      ELSE SliceLast(Append(trafficOverTime,
                                            [allowed |-> a, blocked |-> b, total |-> 1]), 20)
         /\ UNCHANGED <<topBlocked, topBlockedCategories, topBlockedDetail,
                        topBlockedCategoriesDetail>>

\* the list of logs is cut with slice(0, 1000)
OnLog(log) == OnLogSlice(log, 1000)

\* msg.type === 'stats_update': no test of isPausedRef
OnStatsUpdate(data) ==
    /\ hookStats' = [hookStats EXCEPT !.top_sources = data.top_sources,
                                      !.top_destinations = data.top_destinations]
    /\ topBlocked' = data.top_blocked
    /\ topBlockedCategories' = data.top_blocked_categories
    /\ topBlockedDetail' = data.top_blocked_detail
    /\ topBlockedCategoriesDetail' = data.top_blocked_categories_detail
    /\ UNCHANGED <<hookLogs, trafficOverTime>>

\* clearLogs()
clearLogs ==
    /\ hookLogs' = <<>>
    /\ hookStats' = [total_logs |-> 0, allowed_count |-> 0, blocked_count |-> 0,
                     by_action |-> <<>>, by_type |-> <<>>,
                     top_sources |-> <<>>, top_destinations |-> <<>>]
    /\ trafficOverTime' = <<>>
    /\ topBlocked' = <<>>
    /\ topBlockedCategories' = <<>>
    /\ topBlockedDetail' = <<>>
    /\ topBlockedCategoriesDetail' = <<>>

(***************************************************************************)
(* The collector's callbacks and its _notify tasks.  datagram_received     *)
(* creates one task per record; the event loop starts the tasks in the     *)
(* order of their creation, runs one task at a time up to its next await   *)
(* that has to wait, and resumes waiting tasks in any order.               *)
(***************************************************************************)
\* the callbacks on_log is given, by what they do with a record (call
\* add_log, nothing, raise an Exception, raise a BaseException that is no
\* Exception, as asyncio.CancelledError is) and by where they wait: never,
\* before doing it or after; one that waits is a coroutine function.  A
\* callback that raises does not get to a wait after it, and one that does
\* nothing and never waits cannot be told from no callback.
Callbacks ==
    {c \in [does : {"add_log", "nothing", "Exception", "BaseException"},
            awaits : {"never", "before", "after"}] :
        /\ c.does \in {"Exception", "BaseException"} => c.awaits # "after"
        /\ c.does = "nothing" => c.awaits = "before"}

VARIABLES
    callbacks,      \* self._callbacks
    run,            \* per task started: status, the callback it is in, the
                    \* callbacks invoked so far, the errors logged
    ingestOrder     \* history: the task of each add_log call, in call order

notifyVars == <<callbacks, run, ingestOrder>>

NotifyInit ==
    /\ callbacks = <<>>
    /\ run = <<>>
    /\ ingestOrder = <<>>

\* an except clause that catches nothing
caught_nothing(raised) == FALSE

\* except Exception: what the except clause of _notify catches
caught(raised) == raised = "Exception"

\* the loop of _notify for the task in state t, from callback k on, up to
\* the next wait or the end of the task; resumed tells that callback k has
\* been invoked and its wait is over.  adds counts the calls of add_log.
RECURSIVE notify_from(_, _, _, _)
notify_from(t, k, resumed, adds) ==
    IF k > Len(callbacks)
    THEN [task |-> [t EXCEPT !.status = "done", !.cb = k], adds |-> adds]
    ELSE LET cb == callbacks[k]
             t1 == IF resumed THEN t ELSE [t EXCEPT !.invoked = Append(@, k)]
             acts == IF resumed THEN cb.awaits = "before" ELSE cb.awaits # "before"
             adds1 == IF acts /\ cb.does = "add_log" THEN adds + 1 ELSE adds
             raises == acts /\ cb.does \in {"Exception", "BaseException"}
         IN  IF ~resumed /\ cb.awaits = "before"
             THEN [task |-> [t1 EXCEPT !.status = "waiting", !.cb = k], adds |-> adds]
             ELSE IF raises /\ ~caught(cb.does)
             THEN [task |-> [t1 EXCEPT !.status = "raised", !.cb = k], adds |-> adds]
             ELSE IF raises
             THEN notify_from([t1 EXCEPT !.errors = @ + 1], k + 1, FALSE, adds)
             ELSE IF ~resumed /\ cb.awaits = "after"
             THEN [task |-> [t1 EXCEPT !.status = "waiting", !.cb = k], adds |-> adds1]
             ELSE notify_from(t1, k + 1, FALSE, adds1)

\* the task i repeated n times
Times(i, n) == [j \in 1..n |-> i]

(***************************************************************************)
(* The connection side of useWebSocket: the sockets the hook has created,  *)
(* its refs and its reconnect timers.                                      *)
(***************************************************************************)

VARIABLES
    hook,           \* sockets: every WebSocket created, with its readyState,
                    \*   the token and firewall id of its URL and whether
                    \*   its onclose handler is still attached;
                    \* wsRef, reconnectTimeoutRef: index of a socket / of a
                    \*   timer, 0 for null; timers: every setTimeout handle;
                    \* paramsRef, isConnected, isConnecting as in the source;
                    \* mounted, effect: the component is mounted, the params
                    \*   effect is scheduled and has not run yet
    disconnected    \* history: disconnect() has run and the params effect
                    \* has not called connect() with valid params since

\* url && token && firewallId
valid(p) == p.url /\ p.token # 0 /\ p.firewallId # 0

\* the hook of a component that is mounting with the params p
mount(p) ==
    [sockets |-> <<>>, wsRef |-> 0, timers |-> <<>>, reconnectTimeoutRef |-> 0,
     paramsRef |-> p, isConnected |-> FALSE, isConnecting |-> FALSE,
     mounted |-> TRUE, effect |-> TRUE]

\* the props App passes while nobody is logged in
loggedOut == [url |-> FALSE, token |-> 0, firewallId |-> 0]

SocketInit ==
    /\ hook = mount(loggedOut)
    /\ disconnected = FALSE

connect(h) ==
    LET p == h.paramsRef
    IN  IF ~valid(p) THEN h
        ELSE IF /\ h.wsRef # 0
                /\ h.sockets[h.wsRef].readyState \in {"OPEN", "CONNECTING"} THEN h
        ELSE [h EXCEPT !.isConnecting = TRUE,
                       !.sockets = Append(@, [readyState |-> "CONNECTING",
                                              token |-> p.token,
                                              fw |-> p.firewallId,
                                              onclose |-> TRUE]),
                       !.wsRef = Len(h.sockets) + 1]

\* ws.onopen
onopen(h) == [h EXCEPT !.isConnected = TRUE, !.isConnecting = FALSE]

\* an onclose that schedules a reconnect whatever the code
onclose_any_code(h, code) ==
    LET h1 == [h EXCEPT !.wsRef = 0, !.isConnected = FALSE, !.isConnecting = FALSE]
    IN  IF valid(h.paramsRef)
        THEN [h1 EXCEPT !.timers = Append(@, "pending"),
                        !.reconnectTimeoutRef = Len(h.timers) + 1]
        ELSE h1

\* ws.onclose for a close event with the given code
onclose(h, code) ==
    LET h1 == [h EXCEPT !.wsRef = 0, !.isConnected = FALSE, !.isConnecting = FALSE]
    IN  IF code # 1000 /\ valid(h.paramsRef)
        THEN [h1 EXCEPT !.timers = Append(@, "pending"),
                        !.reconnectTimeoutRef = Len(h.timers) + 1]
        ELSE h1

\* a disconnect() that cancels the timer and leaves the socket alone
disconnect_keeps_socket(h) ==
    LET h1 == IF h.reconnectTimeoutRef # 0
              THEN [h EXCEPT !.timers[h.reconnectTimeoutRef] =
                                 IF @ = "pending" THEN "cleared" ELSE @,
                             !.reconnectTimeoutRef = 0]
              ELSE h
    IN  [h1 EXCEPT !.isConnected = FALSE, !.isConnecting = FALSE]

\* clearTimeout stops a timer that has not fired; close() starts the closing
\* of a socket that is connecting or open
disconnect(h) ==
    LET h1 == IF h.reconnectTimeoutRef # 0
              THEN [h EXCEPT !.timers[h.reconnectTimeoutRef] =
                                 IF @ = "pending" THEN "cleared" ELSE @,
                             !.reconnectTimeoutRef = 0]
              ELSE h
        h2 == IF h1.wsRef # 0
              THEN [h1 EXCEPT !.sockets[h1.wsRef].onclose = FALSE,
                              !.sockets[h1.wsRef].readyState =
                                  IF @ \in {"CONNECTING", "OPEN"} THEN "CLOSING" ELSE @,
                              !.wsRef = 0]
              ELSE h1
    IN  [h2 EXCEPT !.isConnected = FALSE, !.isConnecting = FALSE]

vars == <<aggVars, parserVars, hookVars, notifyVars, hook, disconnected>>

(***************************************************************************)
(* The aggregator as a state machine.                                      *)
(***************************************************************************)
\* the addresses a returned result refers to
Held(ret) == IF ret = <<>> THEN {} ELSE {ret[1].by_action, ret[1].by_type}

\* the heap without the dicts nothing refers to any more
Collect(hp, st, ret) ==
    [a \in (DOMAIN hp) \cap ({st.by_action, st.by_type} \cup Held(ret)) |-> hp[a]]

\* the address of a new object: the lowest address not in use
NewAddr(used) == CHOOSE a \in 1..(Cardinality(used) + 1) :
                    a \notin used /\ \A b \in 1..(a - 1) : b \in used

Init ==
    /\ max_logs \in 1..MaxCap
    /\ logs = <<>>
    /\ heap = [a \in {1, 2} |-> <<>>]
    /\ stats = NewStats(1, 2)
    /\ ret_stats = <<>>
    /\ ret_logs = <<>>
    /\ added = <<>>
    /\ nAdds = 0
    /\ nResets = 0
    /\ lastOp = "init"
    /\ ParserInit
    /\ HookInit
    /\ NotifyInit
    /\ SocketInit

AddLogFrom(offered) ==
    /\ nAdds < MaxAdds
    /\ \E log \in offered :
          LET after == add_log(log)
          IN  /\ logs' = after.logs
              /\ stats' = after.stats
              /\ heap' = after.heap
              /\ added' = Append(added, log)
    /\ nAdds' = nAdds + 1
    /\ lastOp' = "add_log"
    /\ UNCHANGED <<max_logs, ret_stats, ret_logs, nResets>>
    /\ UNCHANGED <<parserVars, hookVars, notifyVars, hook, disconnected>>

AddLog == AddLogFrom(Records)

AddLogSnap == AddLogFrom(SnapRecords)

\* reset_stats carrying the blocked sites over
reset_stats_keep_sites ==
    LET a1 == NewAddr(DOMAIN heap)
        a2 == NewAddr(DOMAIN heap \cup {a1})
    IN  [NewStats(a1, a2) EXCEPT !.blocked_sites = stats.blocked_sites]

\* the stats dict reset assigns: new, empty dicts at new addresses
reset_stats ==
    LET a1 == NewAddr(DOMAIN heap)
        a2 == NewAddr(DOMAIN heap \cup {a1})
    IN  NewStats(a1, a2)

\* self._logs.clear() and self.stats = {...}
ResetAggregator ==
    /\ nResets < MaxResets
    /\ logs' = <<>>
    /\ stats' = reset_stats
    /\ heap' = Collect([a \in DOMAIN heap \cup {stats'.by_action, stats'.by_type} |->
                           IF a \in DOMAIN heap THEN heap[a] ELSE <<>>],
                       stats', ret_stats)
    /\ added' = <<>>
    /\ nResets' = nResets + 1
    /\ lastOp' = "reset"
    /\ UNCHANGED <<max_logs, ret_stats, ret_logs, nAdds>>

Reset ==
    /\ ResetAggregator
    /\ UNCHANGED <<parserVars, hookVars, notifyVars, hook, disconnected>>

GetStats ==
    /\ ret_stats' = <<get_stats(stats)>>
    /\ heap' = Collect(heap, stats, ret_stats')
    /\ lastOp' = "get_stats"
    /\ UNCHANGED <<max_logs, logs, stats, ret_logs, added, nAdds, nResets>>
    /\ UNCHANGED <<parserVars, hookVars, notifyVars, hook, disconnected>>

GetRecentLogs ==
    /\ \E limit \in {1, 100} : ret_logs' = get_recent_logs(logs, limit)
    /\ lastOp' = "get_recent_logs"
    /\ UNCHANGED <<max_logs, logs, stats, heap, ret_stats, added, nAdds, nResets>>
    /\ UNCHANGED <<parserVars, hookVars, notifyVars, hook, disconnected>>

\* ingestion and reset
Next == AddLog \/ Reset

Spec == Init /\ [][Next]_vars

\* ingestion, reset and the two read operations
SpecSnap == Init /\ [][AddLogSnap \/ Reset \/ GetStats \/ GetRecentLogs]_vars

(***************************************************************************)
(* get_stats on an aggregator that holds more keys than a Top-N list       *)
(* shows: the aggregator first ingests a batch of records with distinct    *)
(* keys, then a few more records, and get_stats is read at any point.      *)
(***************************************************************************)
\* the most distinct keys a batch brings
MaxKeys == 11

\* a blocked UTM record of the i-th source for the j-th hostname in the
\* c-th category
TopRec(i, j, c) ==
    LET letters == <<"a", "b", "c", "d", "e", "f", "g", "h",
                     "i", "j", "k", "l", "m", "n", "o", "p">>
    IN  Log(S(Str.blocked), S(<<"s", letters[i]>>), None, S(<<"h", letters[j]>>),
            Utm, S(Str.webfilter), S(<<"c", letters[c]>>))

\* n records, each with a source, a site and a category of its own
Spread(n) == [i \in 1..n |-> TopRec(i, i, i)]

\* n records of n sources, all for one site in one category
OneSite(n) == [i \in 1..n |-> TopRec(i, 1, 1)]

\* the records ingested after the batch
TopRecords ==
    {TopRec(1, 2, 1), TopRec(2, 1, 1),
     TopRec(MaxKeys, MaxKeys, MaxKeys), TopRec(MaxKeys, 1, 1)}

\* a new aggregator of capacity cap after add_log of each record of batch
RECURSIVE Ingested(_, _)
Ingested(batch, cap) ==
    IF batch = <<>>
    THEN [logs |-> <<>>, stats |-> NewStats(1, 2), heap |-> [a \in {1, 2} |-> <<>>]]
    ELSE add_log_on(Ingested(SubSeq(batch, 1, Len(batch) - 1), cap), cap,
                    batch[Len(batch)])

InitTop ==
    /\ max_logs = 1
    /\ \E n \in 0..MaxKeys : \E batch \in {Spread(n), OneSite(n)} :
          LET agg == Ingested(batch, max_logs)
          IN  /\ logs = agg.logs
              /\ stats = agg.stats
              /\ heap = agg.heap
              /\ added = batch
    /\ ret_stats = <<>>
    /\ ret_logs = <<>>
    /\ nAdds = 0
    /\ nResets = 0
    /\ lastOp = "init"
    /\ ParserInit
    /\ HookInit
    /\ NotifyInit
    /\ SocketInit

AddLogTop == AddLogFrom(TopRecords)

\* ingestion after the batch, and get_stats
SpecTop == InitTop /\ [][AddLogTop \/ GetStats]_vars

(***************************************************************************)
(* The collector's UDP endpoint: one datagram is on its way, and           *)
(* datagram_received handles it.                                           *)
(***************************************************************************)
InitParse ==
    /\ max_logs = 1
    /\ logs = <<>>
    /\ heap = [a \in {1, 2} |-> <<>>]
    /\ stats = NewStats(1, 2)
    /\ ret_stats = <<>>
    /\ ret_logs = <<>>
    /\ added = <<>>
    /\ nAdds = 0
    /\ nResets = 0
    /\ lastOp = "init"
    /\ udp \in {<<Join(f)>> : f \in UNION {[1..n -> Tokens] : n \in 0..MaxTokens}}
    /\ received = <<>>
    /\ utcnow = <<>>
    /\ tasks = <<>>
    /\ parse_failures = 0
    /\ HookInit
    /\ NotifyInit
    /\ SocketInit

\* datagram_received(data, addr): the whole handler, its except clause
\* included
DatagramReceived ==
    /\ udp # <<>>
    /\ \E now \in {S(<<"@", "1">>), S(<<"@", "2">>)} :
          LET result == datagram_result(udp[1], now)
          IN  /\ utcnow' = Append(utcnow, now)
              /\ IF result.ok
                 THEN /\ tasks' = Append(tasks, result.log_entry)
                      /\ UNCHANGED parse_failures
                 ELSE /\ parse_failures' = parse_failures + 1
                      /\ UNCHANGED tasks
    /\ received' = Append(received, udp[1])
    /\ udp' = Tail(udp)
    /\ UNCHANGED <<aggVars, hookVars, notifyVars, hook, disconnected>>

SpecParse == InitParse /\ [][DatagramReceived]_vars

(***************************************************************************)
(* One viewer on the hub of one firewall.  The hub hands each ingested     *)
(* record to the aggregator and sends it to the open socket, sends one     *)
(* init message when a socket is accepted, and sends the Top-N lists on    *)
(* a timer.  Pausing is local to the hook: handlePause sends nothing, so   *)
(* the hub keeps sending.  The socket delivers its messages in order.       *)
(***************************************************************************)
\* the records the n-th ingestion chooses from: one blocked, one accepted,
\* both of the n-th source
HookRecords(n) == {TopRec(n, 1, 1), [TopRec(n, 1, 1) EXCEPT !.action = S(Str.accept)]}

\* the data of the init message: the ring buffer and get_stats()
init_data == [logs |-> logs, stats |-> Observed(get_stats(stats))]

\* the data of a stats_update message: the Top-N lists of get_stats()
stats_update_data ==
    LET s == get_stats(stats)
    IN  [top_sources |-> s.top_sources,
         top_destinations |-> s.top_destinations,
         top_blocked |-> s.top_blocked,
         top_blocked_categories |-> s.top_blocked_categories,
         top_blocked_detail |-> s.top_blocked_detail,
         top_blocked_categories_detail |-> s.top_blocked_categories_detail]

\* the most messages sent on the socket and not yet handled
MaxInbox == 2

\* connect(): a socket opens, on first connection or from the reconnect
\* timer; the hub registers the subscriber and sends the init message
Subscribe ==
    /\ ~wsOpen
    /\ wsOpen' = TRUE
    /\ inbox' = <<[type |-> "init", data |-> init_data]>>
    /\ UNCHANGED <<isPausedRef, alerted, hookData, missed, aggVars, parserVars, notifyVars, hook, disconnected>>

\* ws.onclose: the connection is lost, and what was sent on it and not
\* handled is lost with it
SocketClose ==
    /\ wsOpen
    /\ wsOpen' = FALSE
    /\ inbox' = <<>>
    /\ UNCHANGED <<isPausedRef, alerted, hookData, missed, aggVars, parserVars, notifyVars, hook, disconnected>>

\* a record reaches the hub: add_log, then the log message to the socket
IngestFrom(offered) ==
    /\ nAdds < MaxAdds
    /\ wsOpen => Len(inbox) < MaxInbox
    /\ \E log \in offered :
          LET after == add_log(log)
          IN  /\ logs' = after.logs
              /\ stats' = after.stats
              /\ heap' = after.heap
              /\ added' = Append(added, log)
              /\ inbox' = IF wsOpen
                          THEN Append(inbox, [type |-> "log", data |-> log])
                          ELSE inbox
    /\ nAdds' = nAdds + 1
    /\ lastOp' = "add_log"
    /\ UNCHANGED <<max_logs, ret_stats, ret_logs, nResets>>
    /\ UNCHANGED <<wsOpen, isPausedRef, alerted, hookData, missed, parserVars, notifyVars, hook, disconnected>>

Ingest == IngestFrom(HookRecords(nAdds + 1))

\* the hub's timer fires: a stats_update message to the socket
StatsUpdate ==
    /\ wsOpen
    /\ Len(inbox) < MaxInbox
    /\ inbox' = Append(inbox, [type |-> "stats_update", data |-> stats_update_data])
    /\ UNCHANGED <<wsOpen, isPausedRef, alerted, hookData, missed, aggVars, parserVars, notifyVars, hook, disconnected>>

\* ws.onmessage: the hook handles the oldest message sent and not handled,
\* with a list of logs cut to limit entries
OnMessageSlice(limit) ==
    /\ inbox # <<>>
    /\ LET msg == Head(inbox)
       IN  /\ CASE msg.type = "init" -> OnInit(msg.data)
                [] msg.type = "log" -> OnLogSlice(msg.data, limit)
                [] msg.type = "stats_update" -> OnStatsUpdate(msg.data)
           /\ missed' = IF msg.type = "log" /\ isPausedRef
                        THEN missed \cup {msg.data}
                        ELSE missed
    /\ inbox' = Tail(inbox)
    /\ UNCHANGED <<wsOpen, isPausedRef, alerted, aggVars, parserVars, notifyVars, hook, disconnected>>

OnMessage == OnMessageSlice(1000)

\* App.handlePause: pauseUpdates(!isPaused)
HandlePause ==
    /\ isPausedRef' = ~isPausedRef
    /\ UNCHANGED <<wsOpen, inbox, hookData, alerted, missed, aggVars, parserVars, notifyVars, hook, disconnected>>

\* a new aggregator that keeps one record, and a hook before any message
InitHook ==
    /\ max_logs = 1
    /\ logs = <<>>
    /\ heap = [a \in {1, 2} |-> <<>>]
    /\ stats = NewStats(1, 2)
    /\ ret_stats = <<>>
    /\ ret_logs = <<>>
    /\ added = <<>>
    /\ nAdds = 0
    /\ nResets = 0
    /\ lastOp = "init"
    /\ ParserInit
    /\ HookInit
    /\ NotifyInit
    /\ SocketInit

SpecHook ==
    /\ InitHook
    /\ [][Subscribe \/ SocketClose \/ Ingest \/ StatsUpdate \/ OnMessage \/ HandlePause]_vars

(***************************************************************************)
(* One viewer that is never paused and whose socket stays open, and        *)
(* records with action labels of every kind.                               *)
(***************************************************************************)
\* the records the n-th ingestion chooses from: one per action label, the
\* labels of the hook's lists and of add_log's, in lower and in upper
\* case, a label of neither and no action at all
LabelRecords(n) ==
    {[TopRec(n, 1, 1) EXCEPT !.action = a] :
        a \in {S(Str.accept), S(Str.deny), S(Str.DENY), S(Str.denied),
               S(Str.allowed), S(Str.passthrough), S(Str.unknown), None}}

IngestLabelled == IngestFrom(LabelRecords(nAdds + 1))

SpecRefine == InitHook /\ [][Subscribe \/ IngestLabelled \/ OnMessage]_vars

(***************************************************************************)
(* The Reset button.  The request either gets a success response, and the  *)
(* server has reset the aggregator, or a response that is no success, or   *)
(* no response at all (fetch rejects); in the last two cases the server    *)
(* has reset nothing.  fetch resolves for every response.                  *)
(***************************************************************************)
\* App.handleReset with a firewall selected and the question confirmed
handleReset(outcome) ==
    /\ IF outcome = "ok"
       THEN ResetAggregator
       ELSE UNCHANGED aggVars
    /\ IF outcome = "rejected"
       THEN alerted' = TRUE /\ UNCHANGED hookData
       ELSE clearLogs /\ UNCHANGED alerted
    /\ UNCHANGED <<wsOpen, inbox, isPausedRef, missed, parserVars, notifyVars, hook, disconnected>>

SpecReset ==
    /\ InitHook
    /\ [][\/ Subscribe \/ Ingest \/ OnMessage
          \/ \E outcome \in {"ok", "error_response", "rejected"} : handleReset(outcome)]_vars

(***************************************************************************)
(* The collector with its callbacks: datagrams arrive, callbacks are       *)
(* registered, and the event loop runs the _notify tasks.                  *)
(***************************************************************************)
\* the most callbacks registered
MaxCallbacks == 2

\* the most datagrams sent
MaxDatagrams == 2

\* the i-th datagram sent: the later it is sent, the earlier the timestamp
\* in its payload
NotifyDatagram(i) ==
    LET digits == <<"9", "8", "7", "6", "5", "4", "3", "2", "1">>
    IN  <<"t", "i", "m", "e", "s", "t", "a", "m", "p", "=", digits[i]>>

InitNotify ==
    /\ max_logs = 1
    /\ logs = <<>>
    /\ heap = [a \in {1, 2} |-> <<>>]
    /\ stats = NewStats(1, 2)
    /\ ret_stats = <<>>
    /\ ret_logs = <<>>
    /\ added = <<>>
    /\ nAdds = 0
    /\ nResets = 0
    /\ lastOp = "init"
    /\ \E n \in 0..MaxDatagrams : udp = [i \in 1..n |-> NotifyDatagram(i)]
    /\ received = <<>>
    /\ utcnow = <<>>
    /\ tasks = <<>>
    /\ parse_failures = 0
    /\ HookInit
    /\ NotifyInit
    /\ SocketInit

\* on_log(callback)
on_log ==
    /\ Len(callbacks) < MaxCallbacks
    /\ \E callback \in Callbacks : callbacks' = Append(callbacks, callback)
    /\ UNCHANGED <<run, ingestOrder, aggVars, parserVars, hookVars, hook, disconnected>>

\* the event loop starts the oldest task not yet started: _notify runs
\* from the first callback to its first wait, or to its end
StartTask ==
    /\ Len(run) < Len(tasks)
    /\ LET i == Len(run) + 1
           r == notify_from([status |-> "ready", cb |-> 0, invoked |-> <<>>, errors |-> 0],
                            1, FALSE, 0)
       IN  /\ run' = Append(run, r.task)
           /\ ingestOrder' = ingestOrder \o Times(i, r.adds)
    /\ UNCHANGED <<callbacks, aggVars, parserVars, hookVars, hook, disconnected>>

\* what a waiting task waits for is there: the event loop resumes it, and
\* _notify runs on to its next wait, or to its end
ResumeTask ==
    /\ \E i \in DOMAIN run :
          /\ run[i].status = "waiting"
          /\ LET r == notify_from(run[i], run[i].cb, TRUE, 0)
             IN  /\ run' = [run EXCEPT ![i] = r.task]
                 /\ ingestOrder' = ingestOrder \o Times(i, r.adds)
    /\ UNCHANGED <<callbacks, aggVars, parserVars, hookVars, hook, disconnected>>

SpecNotify == InitNotify /\ [][DatagramReceived \/ on_log \/ StartTask \/ ResumeTask]_vars

(***************************************************************************)
(* The hook's connection as a state machine: the component renders with    *)
(* new props, React runs the params effect and the cleanup, the browser    *)
(* delivers the socket's events and fires the reconnect timers.            *)
(***************************************************************************)
MaxSockets == 3

\* the props a caller passes: nobody logged in, or a user logged in with
\* firewall 1 or 2 selected
Props ==
    {loggedOut,
     [url |-> TRUE, token |-> 1, firewallId |-> 1],
     [url |-> TRUE, token |-> 1, firewallId |-> 2]}

\* the reconnects that are scheduled; the runs stop short of MaxSockets
\* sockets by as much, so that each of them can still open one
scheduled(h) == Cardinality({t \in 1..Len(h.timers) : h.timers[t] = "pending"})

\* a render with props that differ from the last ones: the ref is updated
\* and the params effect is scheduled
Render ==
    /\ hook.mounted /\ ~hook.effect
    /\ \E p \in Props \ {hook.paramsRef} :
          hook' = [hook EXCEPT !.paramsRef = p, !.effect = TRUE]
    /\ UNCHANGED <<disconnected, aggVars, parserVars, hookVars, notifyVars>>

\* the params effect
RunEffect ==
    /\ hook.effect
    /\ connect(hook) # hook => Len(hook.sockets) + scheduled(hook) < MaxSockets
    /\ LET h == [hook EXCEPT !.effect = FALSE]
       IN  IF valid(h.paramsRef)
           THEN hook' = connect(h) /\ disconnected' = FALSE
           ELSE hook' = disconnect(h) /\ disconnected' = TRUE
    /\ UNCHANGED <<aggVars, parserVars, hookVars, notifyVars>>

\* the cleanup of the unmount effect
Unmount ==
    /\ hook.mounted /\ ~hook.effect
    /\ hook' = disconnect([hook EXCEPT !.mounted = FALSE])
    /\ disconnected' = TRUE
    /\ UNCHANGED <<aggVars, parserVars, hookVars, notifyVars>>

\* the connection of socket i is established
OnOpen ==
    /\ \E i \in 1..Len(hook.sockets) :
          /\ hook.sockets[i].readyState = "CONNECTING"
          /\ hook' = onopen([hook EXCEPT !.sockets[i].readyState = "OPEN"])
    /\ UNCHANGED <<disconnected, aggVars, parserVars, hookVars, notifyVars>>

\* the server starts the closing handshake of socket i
StartClosing ==
    /\ \E i \in 1..Len(hook.sockets) :
          /\ hook.sockets[i].readyState = "OPEN"
          /\ hook' = [hook EXCEPT !.sockets[i].readyState = "CLOSING"]
    /\ UNCHANGED <<disconnected, aggVars, parserVars, hookVars, notifyVars>>

\* the connection of socket i is closed, or could not be established: the
\* close event reaches the handler if one is attached, and no event of the
\* socket reaches a handler after it; its code is that of a normal or of
\* an abnormal closure
OnClose ==
    /\ \E i \in 1..Len(hook.sockets), code \in {1000, 1006} :
          LET s == hook.sockets[i]
              h == [hook EXCEPT !.sockets[i].readyState = "CLOSED",
                                !.sockets[i].onclose = FALSE]
          IN  /\ s.readyState # "CLOSED"
              /\ (s.onclose /\ code # 1000) =>
                     Len(hook.sockets) + scheduled(hook) < MaxSockets
              /\ hook' = IF s.onclose THEN onclose(h, code) ELSE h
    /\ UNCHANGED <<disconnected, aggVars, parserVars, hookVars, notifyVars>>

\* a reconnect timer fires
ReconnectTimer ==
    /\ \E t \in 1..Len(hook.timers) :
          /\ hook.timers[t] = "pending"
          /\ connect(hook) # hook => Len(hook.sockets) < MaxSockets
          /\ hook' = connect([hook EXCEPT !.timers[t] = "fired"])
    /\ UNCHANGED <<disconnected, aggVars, parserVars, hookVars, notifyVars>>

InitSocket ==
    /\ max_logs = 1
    /\ logs = <<>>
    /\ heap = [a \in {1, 2} |-> <<>>]
    /\ stats = NewStats(1, 2)
    /\ ret_stats = <<>>
    /\ ret_logs = <<>>
    /\ added = <<>>
    /\ nAdds = 0
    /\ nResets = 0
    /\ lastOp = "init"
    /\ ParserInit
    /\ HookInit
    /\ NotifyInit
    /\ \E p \in Props : hook = mount(p)
    /\ disconnected = FALSE

SpecSocket ==
    /\ InitSocket
    /\ [][Render \/ RunEffect \/ Unmount \/ OnOpen \/ StartClosing \/ OnClose \/ ReconnectTimer]_vars

\* the timers fire and the effects run: setTimeout runs its callback after
\* the delay, React runs an effect it has scheduled
SpecReconnect == SpecSocket /\ WF_vars(ReconnectTimer) /\ WF_vars(RunEffect)

(***************************************************************************)
(* App as the caller of the hook: it passes WS_URL when a user is logged   *)
(* in and a firewall is selected, the token and the firewall's id.  A      *)
(* firewall is left through handleSwitchFirewall and chosen through        *)
(* handleSelectFirewall, which reloads the page.                           *)
(***************************************************************************)

\* the component renders with the props p after a change of App's state
render(p) ==
    /\ hook.mounted /\ ~hook.effect
    /\ hook' = [hook EXCEPT !.paramsRef = p, !.effect = (p # hook.paramsRef)]
    /\ UNCHANGED disconnected

\* Login calls onLogin; a firewall is selected already when the page was
\* loaded with one in localStorage
handleLogin ==
    /\ hook.paramsRef.token = 0
    /\ render([url |-> hook.paramsRef.firewallId # 0, token |-> 1,
               firewallId |-> hook.paramsRef.firewallId])
    /\ UNCHANGED <<aggVars, parserVars, hookVars, notifyVars>>

\* the logout button of the dashboard
handleLogout ==
    /\ valid(hook.paramsRef)
    /\ render(loggedOut)
    /\ UNCHANGED <<aggVars, parserVars, hookVars, notifyVars>>

\* /api/me does not accept the token
tokenRejected ==
    /\ hook.paramsRef.token # 0
    /\ render(loggedOut)
    /\ UNCHANGED <<aggVars, parserVars, hookVars, notifyVars>>

\* the firewall name in the header of the dashboard
handleSwitchFirewall ==
    /\ valid(hook.paramsRef)
    /\ render([url |-> FALSE, token |-> hook.paramsRef.token, firewallId |-> 0])
    /\ clearLogs
    /\ UNCHANGED <<wsOpen, inbox, isPausedRef, alerted, missed,
                   aggVars, parserVars, notifyVars>>

\* the firewall selector: the id goes to localStorage and the page is
\* reloaded.  The browser drops the sockets and timers of the old page; the
\* new page mounts the hook in its initial state, with the firewall of
\* localStorage and with the token if Login has put it there.
handleSelectFirewall ==
    /\ hook.mounted /\ ~hook.effect
    /\ hook.paramsRef.token # 0 /\ hook.paramsRef.firewallId = 0
    /\ \E fw \in {1, 2}, stored \in BOOLEAN :
          hook' = mount([url |-> stored, token |-> IF stored THEN 1 ELSE 0,
                         firewallId |-> fw])
    /\ disconnected' = FALSE
    /\ UNCHANGED <<aggVars, parserVars, hookVars, notifyVars>>

SpecApp ==
    /\ InitSocket
    /\ [][\/ handleLogin \/ handleLogout \/ tokenRejected
          \/ handleSwitchFirewall \/ handleSelectFirewall
          \/ RunEffect \/ OnOpen \/ StartClosing \/ OnClose \/ ReconnectTimer]_vars

(***************************************************************************)
(* The hook's list of logs when it is full.  The list and the ring buffer  *)
(* both hold 1000 records in the source; here both hold MaxHookLogs, so    *)
(* that an init message carries a full list and a log message overflows it.*)
(***************************************************************************)
MaxHookLogs == 2

OnMessageFull == OnMessageSlice(MaxHookLogs)

InitLogs ==
    /\ max_logs = MaxHookLogs
    /\ logs = <<>>
    /\ heap = [a \in {1, 2} |-> <<>>]
    /\ stats = NewStats(1, 2)
    /\ ret_stats = <<>>
    /\ ret_logs = <<>>
    /\ added = <<>>
    /\ nAdds = 0
    /\ nResets = 0
    /\ lastOp = "init"
    /\ ParserInit
    /\ HookInit
    /\ NotifyInit
    /\ SocketInit

SpecLogs ==
    /\ InitLogs
    /\ [][Subscribe \/ SocketClose \/ Ingest \/ OnMessageFull \/ HandlePause]_vars

(***************************************************************************)
(* Vocabulary of the properties.                                           *)
(***************************************************************************)
\* the action label of a record, letter case aside
Label(log) == IF log.action.t = "str" THEN Lower(log.action.v) ELSE Str.empty

AllowLike(log) == Label(log) \in {Str.accept, Str.allow, Str.pass, Str.passthrough}

BlockLike(log) == Label(log) \in {Str.deny, Str.denied, Str.blocked, Str.drop, Str.block}

\* the last n elements of seq, in order
LastOf(seq, n) ==
    IF Len(seq) <= n THEN seq ELSE SubSeq(seq, Len(seq) - n + 1, Len(seq))

\* add_log(log) is the operation of this step
Ingests(log) == added' = Append(added, log)

SiteDetail(st, site, srcip) ==
    DictGet(DictGet(st.blocked_sites_detail, site, <<>>), srcip, 0)

CategoryDetail(st, category, srcip, site) ==
    DictGet(DictGet(DictGet(st.blocked_categories_detail, category, <<>>), srcip, <<>>), site, 0)

ExampleLog ==
    Log(S(Str.blocked), Src, None, Host, Utm, S(Str.webfilter), S(Str.Gambling))

InboundDeny ==
    Log(S(Str.deny), S(Str.src2), Dst, Host, Traffic, S(Str.forward), S(Str.Gambling))

(***************************************************************************)
(* C1: for the N records passed to add_log since construction or the last  *)
(* reset, total_logs = N and allowed_count + blocked_count <= N, and the   *)
(* sum is below N only when some record is neither allow-like nor          *)
(* block-like.                                                             *)
(***************************************************************************)
C1_Counts ==
    /\ stats.total_logs = Len(added)
    /\ stats.allowed_count + stats.blocked_count <= Len(added)
    /\ stats.allowed_count + stats.blocked_count < Len(added)
          => \E i \in 1..Len(added) : ~AllowLike(added[i]) /\ ~BlockLike(added[i])

(***************************************************************************)
(* C2: the ring buffer never holds more than max_logs records, and it      *)
(* holds the last max_logs records passed to add_log, in arrival order.    *)
(***************************************************************************)
C2_Ring ==
    /\ Len(logs) <= max_logs
    /\ logs = LastOf(added, max_logs)

\* more records than the capacity were added and the oldest were evicted
C2_Witness ==
    /\ max_logs >= 2
    /\ Len(added) > max_logs
    /\ logs[1] # logs[2]
    /\ logs[1] # added[1]

(***************************************************************************)
(* C3: the ring append and the statistics updates of one record are one    *)
(* transaction: total_logs, the sum of by_action and the sum of by_type    *)
(* all equal the number of records appended since the last reset.          *)
(***************************************************************************)
C3_Transaction ==
    /\ stats.total_logs = Len(added)
    /\ DictSum(heap[stats.by_action]) = Len(added)
    /\ DictSum(heap[stats.by_type]) = Len(added)

(***************************************************************************)
(* C4: a result of get_stats, once returned, is not changed by a later     *)
(* add_log or reset: what its holder reads from it stays what it was.      *)
(***************************************************************************)
C4_SnapshotFrozen ==
    [][(ret_stats # <<>> /\ ret_stats' = ret_stats)
          => Observed(ret_stats[1])' = Observed(ret_stats[1])]_vars

(***************************************************************************)
(* C5: a snapshot taken after reset and before the next add_log is empty:  *)
(* no records, counters 0, every mapping and every Top-N list empty.       *)
(***************************************************************************)
EmptyResult(r) ==
    /\ r.total_logs = 0 /\ r.allowed_count = 0 /\ r.blocked_count = 0
    /\ r.by_action = <<>> /\ r.by_type = <<>>
    /\ r.top_sources = <<>> /\ r.top_destinations = <<>>
    /\ r.top_blocked = <<>> /\ r.top_blocked_categories = <<>>
    /\ r.top_blocked_detail = <<>> /\ r.top_blocked_categories_detail = <<>>

C5_ResetThenSnapshot ==
    /\ (added = <<>> /\ lastOp = "get_stats") =>
          /\ EmptyResult(Observed(ret_stats[1]))
          /\ stats.by_srcip = <<>> /\ stats.by_dstip = <<>> /\ stats.by_destination = <<>>
          /\ stats.blocked_sites = <<>> /\ stats.blocked_categories = <<>>
          /\ stats.blocked_sites_detail = <<>> /\ stats.blocked_categories_detail = <<>>
    /\ (added = <<>> /\ lastOp = "get_recent_logs") => ret_logs = <<>>

\* records were added, reset ran, and get_stats ran before the next add_log
C5_Witness ==
    /\ nAdds >= 2
    /\ nResets >= 1
    /\ added = <<>>
    /\ lastOp = "get_stats"
    /\ ret_stats[1].total_logs = 0

(***************************************************************************)
(* C6: add_log increments allowed_count iff the action is one of accept,   *)
(* allow, pass, passthrough, increments blocked_count iff it is one of     *)
(* deny, denied, blocked, drop, block, and never increments both.          *)
(***************************************************************************)
C6_Classification ==
    [][\A log \in Records : Ingests(log) =>
          /\ (stats'.allowed_count = stats.allowed_count + 1) <=> AllowLike(log)
          /\ (stats'.blocked_count = stats.blocked_count + 1) <=> BlockLike(log)
          /\ stats'.allowed_count \in {stats.allowed_count, stats.allowed_count + 1}
          /\ stats'.blocked_count \in {stats.blocked_count, stats.blocked_count + 1}
          /\ ~(/\ stats'.allowed_count = stats.allowed_count + 1
               /\ stats'.blocked_count = stats.blocked_count + 1)]_vars

(***************************************************************************)
(* C7: a utm record with a block-like action, a source address s, a        *)
(* hostname h that is a name and not an address, and a catdesc c is        *)
(* categorised security_web when its subtype is webfilter, and adds 1 to   *)
(* blocked_count, blocked_sites[h], blocked_sites_detail[h][s],            *)
(* blocked_categories[c] and blocked_categories_detail[c][s][h]; on an     *)
(* empty aggregator the details become {s: 1} and {s: {h: 1}}.             *)
(***************************************************************************)
C7Case(log) ==
    /\ log.type = Utm
    /\ BlockLike(log)
    /\ Truthy(log.srcip)
    /\ log.hostname.t = "str" /\ Truthy(log.hostname) /\ ~is_ip_address(log.hostname)
    /\ Truthy(log.catdesc)

C7_BlockedSiteExample ==
    [][\A log \in Records : (Ingests(log) /\ C7Case(log)) =>
          LET s == log.srcip
              h == log.hostname
              c == log.catdesc
          IN  /\ log.subtype = S(Str.webfilter) => log.log_category = S(Str.security_web)
              /\ stats'.blocked_count = stats.blocked_count + 1
              /\ DictGet(stats'.blocked_sites, h, 0) = DictGet(stats.blocked_sites, h, 0) + 1
              /\ SiteDetail(stats', h, s) = SiteDetail(stats, h, s) + 1
              /\ DictGet(stats'.blocked_categories, c, 0)
                    = DictGet(stats.blocked_categories, c, 0) + 1
              /\ CategoryDetail(stats', c, s, h) = CategoryDetail(stats, c, s, h) + 1
              /\ added = <<>> =>
                    /\ DictGet(stats'.blocked_sites_detail, h, <<>>) = <<<<s, 1>>>>
                    /\ DictGet(stats'.blocked_categories_detail, c, <<>>)
                          = <<<<s, <<<<h, 1>>>>>>>>]_vars

\* the example line was ingested twice; its site and category count 2
C7_Witness ==
    /\ added = <<ExampleLog, ExampleLog>>
    /\ C7Case(ExampleLog)
    /\ stats.blocked_sites = <<<<Host, 2>>>>
    /\ stats.blocked_categories = <<<<S(Str.Gambling), 2>>>>

(***************************************************************************)
(* C8: add_log of a record that is not utm, or not block-like, leaves      *)
(* blocked_sites and blocked_sites_detail unchanged.                       *)
(***************************************************************************)
C8_BlockedSitesFrame ==
    [][\A log \in Records : (Ingests(log) /\ ~(log.type = Utm /\ BlockLike(log))) =>
          /\ stats'.blocked_sites = stats.blocked_sites
          /\ stats'.blocked_sites_detail = stats.blocked_sites_detail]_vars

\* a blocked site was recorded, then an inbound deny (type traffic) with a
\* hostname was ingested and the sites are as before
C8_Witness ==
    /\ added = <<ExampleLog, InboundDeny>>
    /\ InboundDeny.type # Utm /\ BlockLike(InboundDeny)
    /\ stats.blocked_count = 2
    /\ stats.blocked_sites = <<<<Host, 1>>>>

(***************************************************************************)
(* C9: blocked_categories and blocked_categories_detail are unchanged by   *)
(* add_log of a record with neither subtype webfilter nor a catdesc, and a *)
(* utm block-like webfilter record without catdesc is counted under the    *)
(* category "Other".                                                       *)
(***************************************************************************)
C9_Categories ==
    [][\A log \in Records : Ingests(log) =>
          /\ (log.subtype # S(Str.webfilter) /\ ~Truthy(log.catdesc)) =>
                /\ stats'.blocked_categories = stats.blocked_categories
                /\ stats'.blocked_categories_detail = stats.blocked_categories_detail
          /\ (/\ log.type = Utm /\ BlockLike(log)
              /\ log.subtype = S(Str.webfilter) /\ ~Truthy(log.catdesc)) =>
                DictGet(stats'.blocked_categories, S(Str.Other), 0)
                   = DictGet(stats.blocked_categories, S(Str.Other), 0) + 1]_vars

(***************************************************************************)
(* C10: the key add_log increments in by_destination is the hostname when  *)
(* the hostname is present, non-empty, different from dstip and not a      *)
(* dotted-quad address, and dstip otherwise; an empty destination leaves   *)
(* by_destination unchanged.                                               *)
(***************************************************************************)
DottedQuad(val) == val.t = "str" /\ is_ip_address(val)

Resolved(log) ==
    IF Truthy(log.hostname) /\ log.hostname # log.dstip /\ ~DottedQuad(log.hostname)
    THEN log.hostname
    ELSE log.dstip

C10_Destination ==
    [][\A log \in Records : Ingests(log) =>
          IF Truthy(Resolved(log))
          THEN stats'.by_destination = DictInc(stats.by_destination, Resolved(log))
          ELSE stats'.by_destination = stats.by_destination]_vars

\* the step of the history at which key was first seen; keys[i] is the
\* key the i-th record of the history counts under
FirstSeen(keys, key) == Least({i \in 1..Len(keys) : keys[i] = key})

\* list is the Top-10 of the count mapping d
IsTop10(list, d, keys) ==
    /\ Len(list) <= 10
    /\ Len(list) = (IF Len(d) < 10 THEN Len(d) ELSE 10)
    /\ \A i \in 1..Len(list) :
          /\ DictHas(d, list[i][1])
          /\ list[i][2] = DictGet(d, list[i][1], 0)
    /\ \A i, j \in 1..Len(list) :
          i < j => \/ list[i][2] > list[j][2]
                   \/ /\ list[i][2] = list[j][2]
                      /\ FirstSeen(keys, list[i][1]) < FirstSeen(keys, list[j][1])
    /\ \A k \in 1..Len(d) :
          (\A i \in 1..Len(list) : list[i][1] # d[k][1])
              => \A i \in 1..Len(list) : list[i][2] >= d[k][2]

\* C11: in the result of get_stats each of top_sources, top_destinations,
\* top_blocked and top_blocked_categories has at most 10 entries, is sorted
\* by count descending with ties in first-seen order of the key since the
\* last reset, and holds the 10 highest-count keys of its count mapping.
C11_TopLists ==
    lastOp = "get_stats" =>
        /\ IsTop10(ret_stats[1].top_sources, stats.by_srcip,
                   [i \in 1..Len(added) |-> added[i].srcip])
        /\ IsTop10(ret_stats[1].top_destinations, stats.by_destination,
                   [i \in 1..Len(added) |-> destination(added[i])])
        /\ IsTop10(ret_stats[1].top_blocked, stats.blocked_sites,
                   [i \in 1..Len(added) |-> blocked_site(added[i])])
        /\ IsTop10(ret_stats[1].top_blocked_categories, stats.blocked_categories,
                   [i \in 1..Len(added) |-> log_category_name(added[i])])

\* get_stats ran on more than 10 sources and sites; the source seen last
\* has the highest count and leads the list, the others are tied
C11_Witness ==
    /\ lastOp = "get_stats"
    /\ Len(stats.by_srcip) > 10
    /\ Len(stats.blocked_sites) > 10
    /\ Len(ret_stats[1].top_sources) = 10
    /\ ret_stats[1].top_sources[1][1] = stats.by_srcip[Len(stats.by_srcip)][1]
    /\ ret_stats[1].top_sources[1][2] > ret_stats[1].top_sources[2][2]
    /\ ret_stats[1].top_sources[2][2] = ret_stats[1].top_sources[10][2]
    /\ ret_stats[1].top_blocked[1][2] > ret_stats[1].top_blocked[2][2]

\* list, whose counts are in column col, has at most 10 entries in
\* descending order of count, entries of equal count in the order of rank
Ranked(list, col, rank) ==
    /\ Len(list) <= 10
    /\ \A i, j \in 1..Len(list) :
          i < j => \/ list[i][col] > list[j][col]
                   \/ list[i][col] = list[j][col] /\ rank[i] < rank[j]

\* the sources of a blocked site are ranked, ties in first-seen order of
\* the source for that site
SiteSourcesRanked(e) ==
    Ranked(e.sources, 2,
           [i \in 1..Len(e.sources) |->
               FirstSeen([k \in 1..Len(added) |->
                             <<blocked_site(added[k]), added[k].srcip>>],
                         <<e.site, e.sources[i][1]>>)])

\* the step at which the source of the i-th tuple of a category entry was
\* first seen in that category
SourceSeen(e, i) ==
    FirstSeen([k \in 1..Len(added) |->
                  <<log_category_name(added[k]), added[k].srcip>>],
              <<e.category, e.sources[i][1]>>)

\* the step at which the i-th (source, destination) tuple of a category
\* entry was first seen in that category
TupleSeen(e, i) ==
    FirstSeen([k \in 1..Len(added) |->
                  <<log_category_name(added[k]), added[k].srcip,
                    blocked_site(added[k])>>],
              <<e.category, e.sources[i][1], e.sources[i][2]>>)

\* C12 as stated: each top_blocked_detail entry lists at most 10 (srcip,
\* count) sources and each top_blocked_categories_detail entry at most 10
\* (srcip, destination, count) tuples, sorted by count descending, ties in
\* first-seen order of the source, respectively of the (source,
\* destination) tuple.
C12_DetailTies ==
    lastOp = "get_stats" =>
        /\ \A n \in 1..Len(ret_stats[1].top_blocked_detail) :
              SiteSourcesRanked(ret_stats[1].top_blocked_detail[n])
        /\ \A n \in 1..Len(ret_stats[1].top_blocked_categories_detail) :
              LET e == ret_stats[1].top_blocked_categories_detail[n]
              IN  Ranked(e.sources, 3,
                         [i \in 1..Len(e.sources) |-> TupleSeen(e, i)])

\* C12 amended: as C12, but the tuples of a category that have equal counts
\* are ordered by the first-seen order of their source in the category, and
\* tuples of one source by the first-seen order of the destination for
\* that source.
C12_DetailOrder ==
    lastOp = "get_stats" =>
        /\ \A n \in 1..Len(ret_stats[1].top_blocked_detail) :
              SiteSourcesRanked(ret_stats[1].top_blocked_detail[n])
        /\ \A n \in 1..Len(ret_stats[1].top_blocked_categories_detail) :
              LET e == ret_stats[1].top_blocked_categories_detail[n]
              IN  Ranked(e.sources, 3,
                         [i \in 1..Len(e.sources) |->
                             SourceSeen(e, i) * (Len(added) + 1) + TupleSeen(e, i)])

\* get_stats ran on a site with more than 10 sources and a category with
\* more than 10 tuples; both lists are cut to 10, the source seen last
\* leads the site's list, and the category's first source has two
\* destinations listed before the second source
C12_Witness ==
    /\ lastOp = "get_stats"
    /\ stats.blocked_sites_detail # <<>>
    /\ stats.blocked_categories_detail # <<>>
    /\ Len(stats.blocked_sites_detail[1][2]) > 10
    /\ Len(flatten(stats.blocked_categories_detail[1][2])) > 10
    /\ Len(ret_stats[1].top_blocked_detail[1].sources) = 10
    /\ Len(ret_stats[1].top_blocked_categories_detail[1].sources) = 10
    /\ LET src == ret_stats[1].top_blocked_detail[1].sources
           tup == ret_stats[1].top_blocked_categories_detail[1].sources
       IN  /\ src[1][2] > src[2][2]
           /\ src[1][1] = TopRec(MaxKeys, 1, 1).srcip
           /\ \E i \in 1..8 : /\ tup[i][1] = tup[i + 1][1]
                              /\ tup[i][3] = tup[i + 1][3]
                              /\ tup[i + 1][3] = tup[i + 2][3]
                              /\ tup[i + 1][1] # tup[i + 2][1]

\* the keys of a dict
Keys(d) == {d[i][1] : i \in 1..Len(d)}

\* the key=value pairs of a parsed text that the record keeps: for each
\* key the last pair, the keys the parser itself writes afterwards aside
KeptPairs(raw) ==
    LET ms == findall(raw, 1)
    IN  {ms[i] : i \in {i \in 1..Len(ms) :
                           /\ \A j \in (i + 1)..Len(ms) : ms[j].key # ms[i].key
                           /\ S(ms[i].key) \notin {Field.timestamp, Field.log_category,
                                                   Field.source_ip}}}

\* the value text of the last pair of a parsed text with this key
FieldText(raw, key) ==
    LET ms == findall(raw, 1)
    IN  match_value(ms[Greatest({i \in 1..Len(ms) : S(ms[i].key) = key})])

HasField(raw, key) ==
    LET ms == findall(raw, 1)
    IN  \E i \in 1..Len(ms) : S(ms[i].key) = key

\* C13: for every datagram payload parsing never fails and the datagram is
\* never discarded: datagram_received always produces a record, with raw
\* and received_at at least, and hands it to the callbacks.
C13_NeverDiscarded ==
    received # <<>> =>
        /\ parse_failures = 0
        /\ Len(tasks) = Len(received)
        /\ {Field.raw, Field.received_at} \subseteq Keys(tasks[1])

\* C14: a raw text without any key=value token yields a record in which
\* only received_at and raw are populated: no timestamp, no category and
\* no other field (source_ip, which datagram_received adds, aside).
C14_BareRecord ==
    (received # <<>> /\ \A i \in 1..Len(received[1]) : received[1][i] # "=") =>
        /\ tasks # <<>>
        /\ Keys(tasks[1]) \ {Field.source_ip} = {Field.raw, Field.received_at}

\* a text of decimal digits that is the numeral of an integer: no leading
\* zero and no sign
Numeral(text) ==
    /\ text # <<>>
    /\ \A i \in 1..Len(text) : text[i] \in Digits
    /\ Len(text) > 1 => text[1] # "0"

\* C15: for every parsed key=value pair the value is stored as an integer
\* iff it consists solely of digits and as the original string otherwise;
\* leading-zero strings (007) and signed strings (-5, +5) remain strings.
C15_Coercion ==
    tasks # <<>> =>
        \A m \in KeptPairs(unprefixed(received[1])) :
            LET text == match_value(m)
                stored == DictGet(tasks[1], S(m.key), None)
            IN  IF Numeral(text) THEN stored = I(text) ELSE stored = S(text)

\* C16: a parsed record has a timestamp field iff the payload contains
\* both a date and a time field, and then timestamp is date, 'T', time;
\* for every other payload, one with its own timestamp= key included,
\* timestamp is absent.
C16_Timestamp ==
    tasks # <<>> =>
        IF /\ HasField(unprefixed(received[1]), Field.date)
           /\ HasField(unprefixed(received[1]), Field.time)
        THEN DictGet(tasks[1], Field.timestamp, None)
                = S(FieldText(unprefixed(received[1]), Field.date) \o <<"T">>
                    \o FieldText(unprefixed(received[1]), Field.time))
        ELSE Field.timestamp \notin Keys(tasks[1])

\* C17: every record the ingestor produces carries received_at equal to
\* the time assigned on receipt; no payload key, raw and received_at
\* included, removes or replaces it.
C17_ReceivedAt ==
    tasks # <<>> => DictGet(tasks[1], Field.received_at, None) = utcnow[1]

\* the text of a datagram after its first '>'
AfterPrefix(text) == SubSeq(text, Find(text, ">") + 2, Len(text))

\* what became of the datagram received
Outcome ==
    [ok |-> tasks # <<>>, log_entry |-> IF tasks # <<>> THEN tasks[1] ELSE <<>>]

C19_NoBackfill ==
    /\ \A i \in DOMAIN hookLogs : hookLogs[i] \notin missed
    /\ hookStats.total_logs + Cardinality(missed) <= Len(added)

\* the lists a stats_update message is about
TopLists == <<hookStats.top_sources, hookStats.top_destinations, topBlocked,
              topBlockedCategories, topBlockedDetail, topBlockedCategoriesDetail>>

(***************************************************************************)
(* C20: while the hook is paused, no stats_update message changes its      *)
(* top_sources, top_destinations, topBlocked, topBlockedCategories or      *)
(* their detail lists.                                                     *)
(***************************************************************************)
C20_PausedTopLists ==
    [][(isPausedRef /\ OnMessage /\ Head(inbox).type = "stats_update")
          => TopLists' = TopLists]_vars

\* the messages of one type sent on the socket and not yet handled
Pending(type) == {i \in DOMAIN inbox : inbox[i].type = type}

FirstAdd(i) == \A h \in 1..(i - 1) : ingestOrder[h] # ingestOrder[i]

(***************************************************************************)
(* C22: records enter the ring buffer in the order their datagrams were    *)
(* received: add_log is never called for the record of a datagram after    *)
(* it was called for the record of a datagram received later, whatever     *)
(* the callbacks are and however their tasks are scheduled.                *)
(***************************************************************************)
C22_ReceptionOrder ==
    \A i, j \in DOMAIN ingestOrder :
        (FirstAdd(i) /\ FirstAdd(j) /\ i < j) => ingestOrder[i] < ingestOrder[j]

\* _notify has invoked, for the i-th task, each callback it has come to
\* once and in the order of registration, and nothing a callback raised
\* has left _notify
Delivered(i) ==
    /\ run[i].status # "raised"
    /\ run[i].invoked = [k \in 1..Len(run[i].invoked) |-> k]
    /\ Len(run[i].invoked) = IF run[i].status = "done" THEN run[i].cb - 1 ELSE run[i].cb

(***************************************************************************)
(* C30, as stated: whatever the callbacks raise, _notify invokes each      *)
(* callback once, in the order of registration, and what a callback        *)
(* raises never leaves _notify.                                            *)
(***************************************************************************)
C30_Delivery == \A i \in DOMAIN run : Delivered(i)

(***************************************************************************)
(* C30, amended: when what the callbacks raise is an Exception, _notify    *)
(* invokes each callback once, in the order of registration, also after    *)
(* callbacks that raised, and nothing raised leaves _notify.               *)
(***************************************************************************)
C30_ExceptionsContained ==
    (\A k \in DOMAIN callbacks : callbacks[k].does # "BaseException")
        => \A i \in DOMAIN run : Delivered(i)

\* a task is done with two callbacks invoked, the first of which raised
C30_Witness ==
    \E i \in DOMAIN run :
        /\ run[i].status = "done"
        /\ run[i].invoked = <<1, 2>>
        /\ run[i].errors >= 1
        /\ callbacks[1].does = "Exception"
        /\ callbacks[2].does # "BaseException"

(***************************************************************************)
(* C29: add_log of a utm block-like record that has a hostname (a text)    *)
(* or a dstip increments one and the same key in blocked_sites and in      *)
(* by_destination, also when the hostname is an IP literal different from  *)
(* dstip.                                                                  *)
(***************************************************************************)
C29_SiteIsDestination ==
    [][\A log \in Records :
          (/\ Ingests(log)
           /\ log.type = Utm /\ BlockLike(log)
           /\ log.hostname.t # "int"
           /\ Truthy(log.hostname) \/ Truthy(log.dstip))
          => \E key \in {log.hostname, log.dstip} :
                /\ stats'.blocked_sites = DictInc(stats.blocked_sites, key)
                /\ stats'.by_destination = DictInc(stats.by_destination, key)]_vars

(***************************************************************************)
(* C28: for a hook that is never paused and has handled its init message   *)
(* and every log message sent to it, total_logs, allowed_count and         *)
(* blocked_count are the aggregator's, whatever the action labels of the   *)
(* records are.                                                            *)
(***************************************************************************)
C28_CountersRefine ==
    (wsOpen /\ inbox = <<>>)
        => /\ hookStats.total_logs = stats.total_logs
           /\ hookStats.allowed_count = stats.allowed_count
           /\ hookStats.blocked_count = stats.blocked_count

(***************************************************************************)
(* C26: when the reset request fails, by a response that is no success or  *)
(* by no response at all, handleReset leaves the hook's logs, stats and    *)
(* top lists as they are and the user is told of the failure.              *)
(***************************************************************************)
C26_FailedResetKeepsData ==
    [][\A outcome \in {"error_response", "rejected"} :
          handleReset(outcome) => (hookData' = hookData /\ alerted')]_vars

\* the sockets that are connecting or open
Live == {i \in 1..Len(hook.sockets) : hook.sockets[i].readyState \in {"CONNECTING", "OPEN"}}

Scheduled(t) == t <= Len(hook.timers) /\ hook.timers[t] = "pending"

\* the reconnect t has been cancelled
Cancelled(t) == t <= Len(hook.timers) /\ hook.timers[t] = "cleared"

\* the timer t has fired and its connect() has left the hook with a socket
\* that is connecting or open
Reconnected(t) ==
    /\ t <= Len(hook.timers) /\ hook.timers[t] = "fired"
    /\ hook.wsRef # 0
    /\ hook.sockets[hook.wsRef].readyState \in {"CONNECTING", "OPEN"}

\* C24 (as stated): every reconnect that is scheduled leads to a call of
\* connect() that makes a connection attempt.
C24_AlwaysReconnects ==
    \A t \in 1..MaxSockets : Scheduled(t) ~> Reconnected(t)

\* C24 (amended): a scheduled reconnect leads to a call of connect() that
\* makes a connection attempt, unless disconnect() cancels it or the params
\* become invalid first; and a close event with code 1000, or one that
\* finds a param missing, schedules nothing.
C24_Reconnects ==
    /\ \A t \in 1..MaxSockets :
          Scheduled(t) ~> (\/ Reconnected(t)
                           \/ Cancelled(t)
                           \/ ~valid(hook.paramsRef))
    /\ [](\A code \in {1000, 1006} :
              (code = 1000 \/ ~valid(hook.paramsRef))
                  => onclose(hook, code).timers = hook.timers)

\* two attempts have failed in a row and each was followed by a reconnect
C24_Witness ==
    /\ Len(hook.timers) >= 2 /\ hook.timers[1] = "fired" /\ hook.timers[2] = "fired"
    /\ Len(hook.sockets) = 3 /\ hook.sockets[3].readyState = "CONNECTING"
    /\ ~disconnected /\ valid(hook.paramsRef)

\* C27: once the params effect has run, a socket the hook holds that is
\* connecting or open was opened with the firewall id and the token of the
\* last render.
C27_SocketOfCurrentFirewall ==
    (/\ ~hook.effect
     /\ hook.wsRef # 0
     /\ hook.sockets[hook.wsRef].readyState \in {"CONNECTING", "OPEN"})
        => /\ hook.sockets[hook.wsRef].fw = hook.paramsRef.firewallId
           /\ hook.sockets[hook.wsRef].token = hook.paramsRef.token

\* after a reconnect the hook holds an open socket of the current firewall
C27_Witness ==
    /\ ~hook.effect
    /\ Len(hook.sockets) = 2 /\ hook.wsRef = 2
    /\ hook.sockets[2].readyState = "OPEN"
    /\ hook.paramsRef.firewallId = 2

\* C27 (as stated): whenever the hook holds a socket that is connecting or
\* open, it was opened with the firewall id and the token of the last
\* render.
C27_Whenever ==
    (/\ hook.wsRef # 0
     /\ hook.sockets[hook.wsRef].readyState \in {"CONNECTING", "OPEN"})
        => /\ hook.sockets[hook.wsRef].fw = hook.paramsRef.firewallId
           /\ hook.sockets[hook.wsRef].token = hook.paramsRef.token

\* the sum of the counts of the dicts that are the values of d
RECURSIVE SumOfSums(_)
SumOfSums(d) == IF d = <<>> THEN 0 ELSE DictSum(d[1][2]) + SumOfSums(Tail(d))

\* C31: the detail counts never exceed their parent counts: per site the
\* sum over the sources of blocked_sites_detail is at most blocked_sites,
\* per category the sum over sources and destinations of
\* blocked_categories_detail is at most blocked_categories, and the sums of
\* blocked_sites and of blocked_categories are each at most blocked_count.
C31_DetailWithinParent ==
    /\ \A site \in Keys(stats.blocked_sites_detail) :
          DictSum(DictGet(stats.blocked_sites_detail, site, <<>>))
              <= DictGet(stats.blocked_sites, site, 0)
    /\ \A category \in Keys(stats.blocked_categories_detail) :
          SumOfSums(DictGet(stats.blocked_categories_detail, category, <<>>))
              <= DictGet(stats.blocked_categories, category, 0)
    /\ DictSum(stats.blocked_sites) <= stats.blocked_count
    /\ DictSum(stats.blocked_categories) <= stats.blocked_count

\* a site and a category have been counted more often than their details,
\* which are not empty: blocks with and without a source have been added
C31_Witness ==
    /\ \E site \in Keys(stats.blocked_sites_detail) :
          LET n == DictSum(DictGet(stats.blocked_sites_detail, site, <<>>))
          IN  n >= 1 /\ n < DictGet(stats.blocked_sites, site, 0)
    /\ \E category \in Keys(stats.blocked_categories_detail) :
          SumOfSums(DictGet(stats.blocked_categories_detail, category, <<>>)) >= 1
    /\ DictSum(stats.blocked_sites) < stats.blocked_count

\* the entries of a list
Entries(seq) == {seq[i] : i \in 1..Len(seq)}

\* the place of a record in the order in which the records arrived
Arrival(log) == CHOOSE i \in 1..Len(added) : added[i] = log

\* C32: the list of logs never exceeds its limit; a log message handled
\* while unpaused puts its record at index 0, and an entry it drops from
\* the list arrived before every entry it keeps.
C32_NewestFirstDropsEarliest ==
    [][(OnMessageFull /\ Head(inbox).type = "log" /\ ~isPausedRef) =>
          /\ Len(hookLogs') <= MaxHookLogs
          /\ hookLogs'[1] = Head(inbox).data
          /\ \A dropped \in Entries(hookLogs) \ Entries(hookLogs') :
                \A kept \in Entries(hookLogs) \cap Entries(hookLogs') :
                    Arrival(dropped) < Arrival(kept)]_vars

\* the first two parts of C32 alone
C32_BoundedNewestFirst ==
    /\ Len(hookLogs) <= MaxHookLogs
    /\ [][(OnMessageFull /\ Head(inbox).type = "log" /\ ~isPausedRef) =>
              hookLogs'[1] = Head(inbox).data]_vars

====
